---- MODULE Spec2Model ----
(***************************************************************************)
(* Persistence core of the Simple Notes App (src/app/db.py): the Users,    *)
(* Tokens and Notes tables behind one shared sqlite3 connection, the       *)
(* bearer tokens that expire a day after issuance (src/app/date_utils.py)  *)
(* and the owner-scoped note operations.  One action per public method of  *)
(* DatabaseManager, each a whole call: token resolution, the statement,    *)
(* and the commit or rollback the code issues (or fails to issue).         *)
(***************************************************************************)
EXTENDS Integers, Sequences, FiniteSets, TLC

VARIABLES
    Users,            \* rows of table Users
    Tokens,           \* rows of table Tokens
    Notes,            \* rows of table Notes
    sqlite_sequence,  \* AUTOINCREMENT high-water marks of Users and Notes
    in_transaction,   \* self.conn.in_transaction
    committed,        \* the tables as of the last commit (what rollback restores)
    now,              \* the wall clock, epoch milliseconds
    utc_shift,        \* change of the local UTC offset at DstAt (time zone of the host)
    next_uuid,        \* source of uuid.uuid4() values
    store_faults,     \* whether calls into sqlite3 raise sqlite3.Error on this host
    threads,          \* per server thread, the call it is in and its locals
    cursor,           \* self.cursor, shared by all calls
    translation,      \* the POST /translate request being handled
    ui,               \* the browser session of frontend.py
    minted,           \* per user, the (user_id, token) pair last returned, and when
    deleted           \* ids of the notes for which delete_note has returned OK

vars == <<Users, Tokens, Notes, sqlite_sequence, in_transaction, committed,
          now, utc_shift, store_faults, threads, cursor, translation, ui, next_uuid, minted, deleted>>

----------------------------------------------------------------------------
(* Bounds of the exploration *)

MaxUuid == 3        \* tokens minted in one behaviour
MaxNotes == 2       \* notes created in one behaviour

(* Input alphabets *)
Usernames == {"alice", "bob"}
Passwords == {"password123", "wrong_password"}
\* sign-up forms: two distinct accounts, and one that reuses the email of the
\* first and the username of the second
SignUpForms == {<<"alice", "password123", "a@example.com">>,
                <<"bob", "wrong_password", "b@example.com">>,
                <<"bob", "password123", "a@example.com">>}
\* (title, content) pairs; a title is a sequence of characters
NoteTexts == {<<<<"Q", "1">>, "C1">>, <<<<"z">>, "C2">>}

(* Program and platform constants *)
MillisPerSecond == 1000
MillisPerDay == 86400000
\* the zone of the host: its UTC offset changes by an hour, half a day after the start
MillisPerHour == MillisPerDay \div 24
DstAt == MillisPerDay \div 2

\* the change of UTC offset in a zone with daylight saving time: forward, back
DstShifts == {MillisPerHour, 0 - MillisPerHour}
\* the instants sampled: the start, the same local time a day later, 24 hours later
Instants(shift) == {0, MillisPerDay - shift, MillisPerDay}

TokenValues == 0 .. MaxUuid      \* 0 is a string no uuid4 call returned
NoteIds == 1 .. (MaxNotes + 1)

----------------------------------------------------------------------------
(* Result sentinels, db.py:15-22, and the shapes of successful results *)

Sentinel(s) == [sentinel |-> s]
USER_NOT_FOUND == Sentinel("user_not_found")
USER_ALREADY_EXISTS == Sentinel("user_alredy_exists")
STATUS_INVALID_PASSWORD == Sentinel("invalid_password")
TOKEN_EXPIRED == Sentinel("token_expired")
INVALID_TOKEN == Sentinel("invalid_token")
NOTE_NOT_FOUND == Sentinel("note_not_found")
UNKNOWN_ERROR == Sentinel("unknown_error")
OK == Sentinel("ok")

UserToken(u, t) == [user_id |-> u, token |-> t]   \* return (user_id, token_value)
UserId(u) == [user_id |-> u]                      \* return user_id
NoteId(n) == [note_id |-> n]                      \* return self.cursor.lastrowid
NoteOf(row) == [note |-> row]                     \* return Note.from_row(note)
IsUserToken(r) == DOMAIN r = {"user_id", "token"}

Out(r, st) == [ret |-> r, st |-> st]

----------------------------------------------------------------------------
(* Wall clock and local time.  datetime.now() is a naive local datetime:   *)
(* the wall reading plus the fold bit; timestamp() reads it back in the    *)
(* zone of the host, whose UTC offset changes by utc_shift at DstAt.       *)

utcoffset(shift, t) == IF t >= DstAt THEN shift ELSE 0

datetime_now(shift, t) ==
    LET wall == t + utcoffset(shift, t)
    IN  [wall |-> wall,
         fold |-> IF t >= DstAt /\ wall < DstAt THEN 1 ELSE 0]

plus_timedelta(dt, millis) == [wall |-> dt.wall + millis, fold |-> 0]

timestamp(shift, dt) ==
    LET before == dt.wall
        after == dt.wall - shift
        beforeOk == before < DstAt
        afterOk == after >= DstAt
    IN  IF beforeOk /\ afterOk THEN (IF dt.fold = 1 THEN after ELSE before)
        ELSE IF beforeOk THEN before
        ELSE IF afterOk THEN after
        ELSE (IF dt.fold = 1 THEN after ELSE before)

current_timestamp_millis(shift, t) == timestamp(shift, datetime_now(shift, t))

\* variant: the day is not added
next_day_timestamp_millis_today(shift, t) ==
    timestamp(shift, datetime_now(shift, t))

next_day_timestamp_millis(shift, t) ==
    timestamp(shift, plus_timedelta(datetime_now(shift, t), MillisPerDay))

\* SQLite CURRENT_TIMESTAMP: UTC, whole seconds
CURRENT_TIMESTAMP(t) == t \div MillisPerSecond

----------------------------------------------------------------------------
(* bcrypt: the hash carries its salt; checkpw rehashes with that salt *)

Salt == "salt"
hashpw(password, salt) == <<salt, password>>
checkpw(password, hashed) == hashpw(password, hashed[1]) = hashed

----------------------------------------------------------------------------
(* The connection: tables, transaction state, commit and rollback *)

Tables(st) == [Users |-> st.Users, Tokens |-> st.Tokens, Notes |-> st.Notes,
               sqlite_sequence |-> st.sqlite_sequence]

Store == [Users |-> Users, Tokens |-> Tokens, Notes |-> Notes,
          sqlite_sequence |-> sqlite_sequence,
          in_transaction |-> in_transaction, committed |-> committed]

\* sqlite3 opens a transaction before INSERT/UPDATE/DELETE/REPLACE when none is open
begin_dml(st) == [st EXCEPT !.in_transaction = TRUE]

commit(st) == [st EXCEPT !.in_transaction = FALSE, !.committed = Tables(st)]

rollback(st) ==
    IF st.in_transaction
    THEN [st EXCEPT !.Users = st.committed.Users,
                    !.Tokens = st.committed.Tokens,
                    !.Notes = st.committed.Notes,
                    !.sqlite_sequence = st.committed.sqlite_sequence,
                    !.in_transaction = FALSE]
    ELSE st

Max(S) == CHOOSE x \in S : \A y \in S : y <= x

\* variant: the lowest id no row holds is handed out
next_rowid_lowest_free(seq, ids) ==
    CHOOSE i \in 1 .. Cardinality(ids) + 1 :
        i \notin ids /\ \A j \in 1 .. i - 1 : j \in ids

\* variant: without AUTOINCREMENT, one more than the largest rowid in the table
next_rowid_reusing(seq, ids) == Max({0} \cup ids) + 1

\* INTEGER PRIMARY KEY AUTOINCREMENT: one more than the largest rowid ever used
next_rowid(seq, ids) == Max({seq} \cup ids) + 1

----------------------------------------------------------------------------
(* The SQL statements of db.py on the tables *)

\* variant: email is not UNIQUE
insert_user_email_not_unique(st, username, password_hash, email) ==
    IF \E u \in st.Users : u.username = username
    THEN [error |-> "IntegrityError", st |-> st, lastrowid |-> 0]
    ELSE LET id == next_rowid(st.sqlite_sequence.Users,
                              {u.user_id : u \in st.Users})
         IN  [error |-> "",
              st |-> [st EXCEPT
                        !.Users = @ \cup {[user_id |-> id, username |-> username,
                                           password_hash |-> password_hash,
                                           email |-> email]},
                        !.sqlite_sequence.Users = id],
              lastrowid |-> id]

\* INSERT INTO Users (username, password_hash, email): UNIQUE username, UNIQUE email
insert_user(st, username, password_hash, email) ==
    IF \E u \in st.Users : u.username = username \/ u.email = email
    THEN [error |-> "IntegrityError", st |-> st, lastrowid |-> 0]
    ELSE LET id == next_rowid(st.sqlite_sequence.Users,
                              {u.user_id : u \in st.Users})
         IN  [error |-> "",
              st |-> [st EXCEPT
                        !.Users = @ \cup {[user_id |-> id, username |-> username,
                                           password_hash |-> password_hash,
                                           email |-> email]},
                        !.sqlite_sequence.Users = id],
              lastrowid |-> id]

\* INSERT INTO Tokens (value, user_id, expiration): PRIMARY KEY user_id, UNIQUE value
insert_token(st, value, user_id, expiration) ==
    IF \E t \in st.Tokens : t.user_id = user_id \/ t.value = value
    THEN [error |-> "IntegrityError", st |-> st]
    ELSE [error |-> "",
          st |-> [st EXCEPT !.Tokens = @ \cup {[user_id |-> user_id, value |-> value,
                                                 expiration |-> expiration]}]]

\* variant: user_id is not the PRIMARY KEY, so the earlier row stays
replace_token_keeping(st, user_id, value, expiration) ==
    [st EXCEPT !.Tokens =
        {t \in @ : t.value # value}
        \cup {[user_id |-> user_id, value |-> value, expiration |-> expiration]}]

\* INSERT OR REPLACE INTO Tokens: the rows in conflict are deleted first
replace_token(st, user_id, value, expiration) ==
    [st EXCEPT !.Tokens =
        {t \in @ : t.user_id # user_id /\ t.value # value}
        \cup {[user_id |-> user_id, value |-> value, expiration |-> expiration]}]

\* SELECT user_id, password_hash FROM Users WHERE username = ?  (fetchone)
select_user(st, username) == {u \in st.Users : u.username = username}

\* SELECT Users.user_id, Tokens.expiration FROM Users JOIN Tokens
\*   ON Users.user_id = Tokens.user_id WHERE Tokens.value = ?
select_token(st, user_token) ==
    {[user_id |-> u.user_id, expiration |-> t.expiration] :
        <<u, t>> \in {p \in st.Users \X st.Tokens :
                        p[1].user_id = p[2].user_id /\ p[2].value = user_token}}

----------------------------------------------------------------------------
(* DatabaseManager.create_user, db.py:113-157 *)

create_user(st, username, password, email, uuid4, shift, t) ==
    LET hashed_password == hashpw(password, Salt)
        s0 == begin_dml(st)
        ins == insert_user(s0, username, hashed_password, email)
    IN  IF ins.error = "IntegrityError"
        THEN Out(USER_ALREADY_EXISTS, rollback(s0))
        ELSE LET user_id == ins.lastrowid
                 expiration == next_day_timestamp_millis(shift, t)
                 tok == insert_token(ins.st, uuid4, user_id, expiration)
             IN  IF tok.error = "IntegrityError"
                 THEN Out(USER_ALREADY_EXISTS, rollback(ins.st))
                 ELSE Out(UserToken(user_id, uuid4), commit(tok.st))

\* variant: a refused password ends the user's session
verify_user_refusal_ends_session(st, username, password, uuid4, shift, t) ==
    IF st.in_transaction
    THEN Out(UNKNOWN_ERROR, rollback(st))
    ELSE LET s0 == [st EXCEPT !.in_transaction = TRUE]
             rows == select_user(s0, username)
         IN  IF rows # {}
             THEN LET user == CHOOSE u \in rows : TRUE
                  IN  IF checkpw(password, user.password_hash)
                      THEN LET expiration == next_day_timestamp_millis(shift, t)
                               s1 == replace_token(s0, user.user_id, uuid4, expiration)
                           IN  Out(UserToken(user.user_id, uuid4), commit(s1))
                      ELSE Out(STATUS_INVALID_PASSWORD,
                               commit([s0 EXCEPT !.Tokens =
                                          {k \in @ : k.user_id # user.user_id}]))
             ELSE Out(USER_NOT_FOUND, rollback(s0))

(* DatabaseManager.verify_user, db.py:159-205.  BEGIN TRANSACTION raises    *)
(* sqlite3.OperationalError when a transaction is already open.            *)

verify_user(st, username, password, uuid4, shift, t) ==
    IF st.in_transaction
    THEN Out(UNKNOWN_ERROR, rollback(st))
    ELSE LET s0 == [st EXCEPT !.in_transaction = TRUE]
             rows == select_user(s0, username)
         IN  IF rows # {}
             THEN LET user == CHOOSE u \in rows : TRUE
                  IN  IF checkpw(password, user.password_hash)
                      THEN LET expiration == next_day_timestamp_millis(shift, t)
                               s1 == replace_token(s0, user.user_id, uuid4, expiration)
                           IN  Out(UserToken(user.user_id, uuid4), commit(s1))
                      ELSE Out(STATUS_INVALID_PASSWORD, rollback(s0))
             ELSE Out(USER_NOT_FOUND, rollback(s0))

\* variant: a token still resolves at the instant of its expiration
get_user_id_from_token_inclusive(st, user_token, shift, t) ==
    LET rows == select_token(st, user_token)
    IN  IF rows # {}
        THEN LET result == CHOOSE r \in rows : TRUE
             IN  IF result.expiration >= current_timestamp_millis(shift, t)
                 THEN UserId(result.user_id)
                 ELSE TOKEN_EXPIRED
        ELSE INVALID_TOKEN

(* DatabaseManager.get_user_id_from_token, db.py:227-250 *)

get_user_id_from_token(st, user_token, shift, t) ==
    LET rows == select_token(st, user_token)
    IN  IF rows # {}
        THEN LET result == CHOOSE r \in rows : TRUE
             IN  IF result.expiration > current_timestamp_millis(shift, t)
                 THEN UserId(result.user_id)
                 ELSE TOKEN_EXPIRED
        ELSE INVALID_TOKEN

----------------------------------------------------------------------------
(* Statements on Notes *)

\* variant: updated_at has no DEFAULT and stays NULL (shown as -1)
insert_note_updated_at_null(st, user_id, title, content, t) ==
    LET id == next_rowid(st.sqlite_sequence.Notes, {n.note_id : n \in st.Notes})
    IN  [st |-> [st EXCEPT
                   !.Notes = @ \cup {[note_id |-> id, user_id |-> user_id,
                                      title |-> title, content |-> content,
                                      created_at |-> CURRENT_TIMESTAMP(t),
                                      updated_at |-> 0 - 1]},
                   !.sqlite_sequence.Notes = id],
         lastrowid |-> id]

\* INSERT INTO Notes (user_id, title, content); created_at and updated_at
\* DEFAULT CURRENT_TIMESTAMP
insert_note(st, user_id, title, content, t) ==
    LET id == next_rowid(st.sqlite_sequence.Notes, {n.note_id : n \in st.Notes})
    IN  [st |-> [st EXCEPT
                   !.Notes = @ \cup {[note_id |-> id, user_id |-> user_id,
                                      title |-> title, content |-> content,
                                      created_at |-> CURRENT_TIMESTAMP(t),
                                      updated_at |-> CURRENT_TIMESTAMP(t)]},
                   !.sqlite_sequence.Notes = id],
         lastrowid |-> id]

\* variant: the owner is not part of the WHERE clause
select_note_any_owner(st, note_id, user_id) ==
    {n \in st.Notes : n.note_id = note_id}

\* SELECT * FROM Notes WHERE note_id = ? AND user_id = ?
select_note(st, note_id, user_id) ==
    {n \in st.Notes : n.note_id = note_id /\ n.user_id = user_id}

\* variant: the owner is not part of the WHERE clause
update_notes_any_owner(st, title, content, note_id, user_id, t) ==
    LET hit == {n \in st.Notes : n.note_id = note_id}
    IN  [st |-> [st EXCEPT !.Notes =
                    (@ \ hit) \cup
                    {[n EXCEPT !.title = title, !.content = content,
                               !.updated_at = CURRENT_TIMESTAMP(t)] : n \in hit}],
         rowcount |-> Cardinality(hit)]

\* variant: the trigger has no WHERE clause and refreshes every row
update_notes_trigger_all_rows(st, title, content, note_id, user_id, t) ==
    LET hit == {n \in st.Notes : n.note_id = note_id /\ n.user_id = user_id}
    IN  [st |-> [st EXCEPT !.Notes =
                    IF hit = {} THEN @
                    ELSE {[n EXCEPT !.updated_at = CURRENT_TIMESTAMP(t)] :
                            n \in @ \ hit}
                         \cup
                         {[n EXCEPT !.title = title, !.content = content,
                                    !.updated_at = CURRENT_TIMESTAMP(t)] :
                            n \in hit}],
         rowcount |-> Cardinality(hit)]

\* UPDATE Notes SET title = ?, content = ? WHERE note_id = ? AND user_id = ?
\* followed by trigger update_notes_updated_at on each updated row
update_notes(st, title, content, note_id, user_id, t) ==
    LET hit == {n \in st.Notes : n.note_id = note_id /\ n.user_id = user_id}
    IN  [st |-> [st EXCEPT !.Notes =
                    (@ \ hit) \cup
                    {[n EXCEPT !.title = title, !.content = content,
                               !.updated_at = CURRENT_TIMESTAMP(t)] : n \in hit}],
         rowcount |-> Cardinality(hit)]

\* DELETE FROM Notes WHERE note_id = ? AND user_id = ?
delete_notes(st, note_id, user_id) ==
    LET hit == {n \in st.Notes : n.note_id = note_id /\ n.user_id = user_id}
    IN  [st |-> [st EXCEPT !.Notes = @ \ hit], rowcount |-> Cardinality(hit)]

----------------------------------------------------------------------------
(* str.strip() and the LIKE operator, on titles and queries as sequences of *)
(* characters                                                              *)

Whitespace == {" "}

RECURSIVE lstrip(_)
lstrip(s) == IF s # <<>> /\ Head(s) \in Whitespace THEN lstrip(Tail(s)) ELSE s

RECURSIVE rstrip(_)
rstrip(s) ==
    IF s # <<>> /\ s[Len(s)] \in Whitespace
    THEN rstrip(SubSeq(s, 1, Len(s) - 1)) ELSE s

strip(s) == rstrip(lstrip(s))

\* LIKE folds the case of ASCII letters
lower(c) == CASE c = "Q" -> "q" [] c = "Z" -> "z" [] OTHER -> c

RECURSIVE like(_, _)
like(text, pattern) ==
    IF pattern = <<>> THEN text = <<>>
    ELSE IF Head(pattern) = "%"
         THEN \/ like(text, Tail(pattern))
              \/ text # <<>> /\ like(Tail(text), pattern)
    ELSE IF text = <<>> THEN FALSE
    ELSE IF Head(pattern) = "_" THEN like(Tail(text), Tail(pattern))
    ELSE lower(Head(pattern)) = lower(Head(text)) /\ like(Tail(text), Tail(pattern))

\* SELECT * FROM Notes WHERE user_id = ? [AND title LIKE ?]
select_notes(st, user_id, query) ==
    IF query # <<>>
    THEN {n \in st.Notes : n.user_id = user_id
                           /\ like(n.title, <<"%">> \o query \o <<"%">>)}
    ELSE {n \in st.Notes : n.user_id = user_id}

\* ORDER BY updated_at DESC: the orders of the rows SQL allows (ties in any order)
order_by_updated_at_desc(rows) ==
    {s \in [1 .. Cardinality(rows) -> rows] :
        /\ \A i, j \in DOMAIN s : i # j => s[i] # s[j]
        /\ \A i, j \in DOMAIN s : i < j => s[i].updated_at >= s[j].updated_at}

----------------------------------------------------------------------------
(* The note methods of DatabaseManager *)

IsAuthFailure(user_id) == user_id = TOKEN_EXPIRED \/ user_id = INVALID_TOKEN

\* db.py:252-274
_create_note(st, user_id, title, content, t) ==
    LET ins == insert_note(begin_dml(st), user_id, title, content, t)
    IN  Out(NoteId(ins.lastrowid), commit(ins.st))

\* db.py:276-298
create_note(st, user_token, title, content, shift, t) ==
    LET user_id == get_user_id_from_token(st, user_token, shift, t)
    IN  IF IsAuthFailure(user_id) THEN Out(user_id, st)
        ELSE _create_note(st, user_id.user_id, title, content, t)

\* db.py:300-325
_get_note(st, note_id, user_id) ==
    LET rows == select_note(st, note_id, user_id)
    IN  IF rows = {} THEN Out(NOTE_NOT_FOUND, st)
        ELSE Out(NoteOf(CHOOSE n \in rows : TRUE), st)

\* db.py:327-348
get_note(st, note_id, user_token, shift, t) ==
    LET user_id == get_user_id_from_token(st, user_token, shift, t)
    IN  IF IsAuthFailure(user_id) \/ user_id = NOTE_NOT_FOUND THEN Out(user_id, st)
        ELSE _get_note(st, note_id, user_id.user_id)

\* db.py:350-383: the lists the call may return
_get_all_notes(st, user_id, search_query) ==
    LET query == strip(search_query)
    IN  {Out([notes |-> SubSeq(s, 1, Len(s))], st) :
            s \in order_by_updated_at_desc(select_notes(st, user_id, query))}

\* db.py:385-405
get_all_notes(st, user_token, search_query, shift, t) ==
    LET user_id == get_user_id_from_token(st, user_token, shift, t)
    IN  IF IsAuthFailure(user_id) THEN {Out(user_id, st)}
        ELSE _get_all_notes(st, user_id.user_id, search_query)

\* db.py:407-434: with rowcount 0 the method returns before any commit or rollback
_update_note(st, note_id, user_id, title, content, t) ==
    LET upd == update_notes(begin_dml(st), title, content, note_id, user_id, t)
    IN  IF upd.rowcount = 0 THEN Out(NOTE_NOT_FOUND, upd.st)
        ELSE Out(OK, commit(upd.st))

\* db.py:436-459
update_note(st, note_id, user_token, title, content, shift, t) ==
    LET user_id == get_user_id_from_token(st, user_token, shift, t)
    IN  IF IsAuthFailure(user_id) THEN Out(user_id, st)
        ELSE _update_note(st, note_id, user_id.user_id, title, content, t)

\* db.py:461-484: with rowcount 0 the method returns before any commit or rollback
_delete_note(st, note_id, user_id) ==
    LET del == delete_notes(begin_dml(st), note_id, user_id)
    IN  IF del.rowcount = 0 THEN Out(NOTE_NOT_FOUND, del.st)
        ELSE Out(OK, commit(del.st))

\* db.py:486-506
delete_note(st, note_id, user_token, shift, t) ==
    LET user_id == get_user_id_from_token(st, user_token, shift, t)
    IN  IF IsAuthFailure(user_id) THEN Out(user_id, st)
        ELSE _delete_note(st, note_id, user_id.user_id)

----------------------------------------------------------------------------
(* Store faults.  One call into sqlite3 made by the method (a              *)
(* cursor.execute, the fetch after it, conn.commit or the conn.rollback of *)
(* a refused sign-in) raises sqlite3.Error; `at` names that call, "none"   *)
(* is the call without a fault.  When the method returns before the call   *)
(* named, no fault is raised and the result is that of the plain method.   *)

Raise(e) == [raise |-> e]
IsRaise(r) == DOMAIN r = {"raise"}

\* the outcome of a call in which the fault was raised
Faulted(r, st) == [ret |-> r, st |-> st, fault |-> "sqlite3.Error"]
IsFaulted(o) == "fault" \in DOMAIN o

\* db.py:113-157: except sqlite3.Error rolls back and returns UNKNOWN_ERROR
create_user_fault(st, username, password, email, uuid4, shift, t, at) ==
    LET s0 == begin_dml(st)
        ins == insert_user(s0, username, hashpw(password, Salt), email)
        tok == insert_token(ins.st, uuid4, ins.lastrowid,
                            next_day_timestamp_millis(shift, t))
    IN  IF at = "insert_user" THEN Faulted(UNKNOWN_ERROR, rollback(s0))
        ELSE IF at = "insert_token" /\ ins.error = ""
             THEN Faulted(UNKNOWN_ERROR, rollback(ins.st))
        ELSE IF at = "commit" /\ ins.error = "" /\ tok.error = ""
             THEN Faulted(UNKNOWN_ERROR, rollback(tok.st))
        ELSE create_user(st, username, password, email, uuid4, shift, t)

\* db.py:159-205: every store call is inside the try; the handler rolls back
verify_user_fault(st, username, password, uuid4, shift, t, at) ==
    LET s0 == [st EXCEPT !.in_transaction = TRUE]
        rows == select_user(s0, username)
        found == rows # {} /\ checkpw(password, (CHOOSE u \in rows : TRUE).password_hash)
        user == CHOOSE u \in rows : TRUE
        s1 == replace_token(s0, user.user_id, uuid4,
                            next_day_timestamp_millis(shift, t))
    IN  IF at = "begin" THEN Faulted(UNKNOWN_ERROR, rollback(st))
        ELSE IF st.in_transaction
             THEN verify_user(st, username, password, uuid4, shift, t)
        ELSE IF at = "select_user" THEN Faulted(UNKNOWN_ERROR, rollback(s0))
        ELSE IF at = "replace_token" /\ found
             THEN Faulted(UNKNOWN_ERROR, rollback(s0))
        ELSE IF at = "commit" /\ found THEN Faulted(UNKNOWN_ERROR, rollback(s1))
        ELSE IF at = "rollback" /\ ~found THEN Faulted(UNKNOWN_ERROR, rollback(s0))
        ELSE verify_user(st, username, password, uuid4, shift, t)

\* db.py:227-250: no try around the execute and the fetch
get_user_id_from_token_fault(st, user_token, shift, t, at) ==
    IF at = "select_token" THEN Raise("sqlite3.Error")
    ELSE get_user_id_from_token(st, user_token, shift, t)

\* the statement of the private method is reached when the token resolves
Resolved(st, user_token, shift, t) ==
    ~IsAuthFailure(get_user_id_from_token(st, user_token, shift, t))

\* db.py:252-298: a fault while resolving the token is caught by create_note,
\* which returns without a rollback; one in _create_note is rolled back there
create_note_fault(st, user_token, title, content, shift, t, at) ==
    LET user_id == get_user_id_from_token(st, user_token, shift, t)
        s0 == begin_dml(st)
        ins == insert_note(s0, user_id.user_id, title, content, t)
    IN  IF at = "select_token" THEN Faulted(UNKNOWN_ERROR, st)
        ELSE IF at = "insert_note" /\ Resolved(st, user_token, shift, t)
             THEN Faulted(UNKNOWN_ERROR, rollback(s0))
        ELSE IF at = "commit" /\ Resolved(st, user_token, shift, t)
             THEN Faulted(UNKNOWN_ERROR, rollback(ins.st))
        ELSE create_note(st, user_token, title, content, shift, t)

\* db.py:300-348: neither handler rolls back
get_note_fault(st, note_id, user_token, shift, t, at) ==
    IF at = "select_token" THEN Faulted(UNKNOWN_ERROR, st)
    ELSE IF at = "select_note" /\ Resolved(st, user_token, shift, t)
         THEN Faulted(UNKNOWN_ERROR, st)
    ELSE get_note(st, note_id, user_token, shift, t)

\* variant: a fault while listing is answered like a fault elsewhere
get_all_notes_fault_unknown_error(st, user_token, search_query, shift, t, at) ==
    IF at = "select_token" THEN {Faulted(UNKNOWN_ERROR, st)}
    ELSE IF at = "select_notes" /\ Resolved(st, user_token, shift, t)
         THEN {Faulted(UNKNOWN_ERROR, st)}
    ELSE get_all_notes(st, user_token, search_query, shift, t)

\* db.py:350-405: both handlers return []
get_all_notes_fault(st, user_token, search_query, shift, t, at) ==
    IF at = "select_token" THEN {Faulted([notes |-> <<>>], st)}
    ELSE IF at = "select_notes" /\ Resolved(st, user_token, shift, t)
         THEN {Faulted([notes |-> <<>>], st)}
    ELSE get_all_notes(st, user_token, search_query, shift, t)

\* db.py:407-459
update_note_fault(st, note_id, user_token, title, content, shift, t, at) ==
    LET user_id == get_user_id_from_token(st, user_token, shift, t)
        s0 == begin_dml(st)
        upd == update_notes(s0, title, content, note_id, user_id.user_id, t)
    IN  IF at = "select_token" THEN Faulted(UNKNOWN_ERROR, st)
        ELSE IF at = "update_notes" /\ Resolved(st, user_token, shift, t)
             THEN Faulted(UNKNOWN_ERROR, rollback(s0))
        ELSE IF at = "commit" /\ Resolved(st, user_token, shift, t)
                /\ upd.rowcount > 0
             THEN Faulted(UNKNOWN_ERROR, rollback(upd.st))
        ELSE update_note(st, note_id, user_token, title, content, shift, t)

\* db.py:461-506
delete_note_fault(st, note_id, user_token, shift, t, at) ==
    LET user_id == get_user_id_from_token(st, user_token, shift, t)
        s0 == begin_dml(st)
        del == delete_notes(s0, note_id, user_id.user_id)
    IN  IF at = "select_token" THEN Faulted(UNKNOWN_ERROR, st)
        ELSE IF at = "delete_notes" /\ Resolved(st, user_token, shift, t)
             THEN Faulted(UNKNOWN_ERROR, rollback(s0))
        ELSE IF at = "commit" /\ Resolved(st, user_token, shift, t)
                /\ del.rowcount > 0
             THEN Faulted(UNKNOWN_ERROR, rollback(del.st))
        ELSE delete_note(st, note_id, user_token, shift, t)

\* the store calls of each method
CreateUserCalls == {"insert_user", "insert_token", "commit"}
VerifyUserCalls == {"begin", "select_user", "replace_token", "commit", "rollback"}
ResolveCalls == {"select_token"}
CreateNoteCalls == {"select_token", "insert_note", "commit"}
GetNoteCalls == {"select_token", "select_note"}
GetAllNotesCalls == {"select_token", "select_notes"}
UpdateNoteCalls == {"select_token", "update_notes", "commit"}
DeleteNoteCalls == {"select_token", "delete_notes", "commit"}

----------------------------------------------------------------------------
(* The request adapter, src/app/api.py.  A handler is applied to what its   *)
(* DatabaseManager call gave: the value returned, or the exception raised.  *)
(* It answers with a response, or lets an exception leave the handler.      *)

None == [none |-> TRUE]
Response(status, body) == [status |-> status, body |-> body]
IsResponse(r) == DOMAIN r = {"status", "body"}

\* the attributes of class DatabaseManager that hold results, db.py:15-22
DatabaseManager ==
    [USER_NOT_FOUND |-> USER_NOT_FOUND,
     USER_ALREADY_EXISTS |-> USER_ALREADY_EXISTS,
     STATUS_INVALID_PASSWORD |-> STATUS_INVALID_PASSWORD,
     TOKEN_EXPIRED |-> TOKEN_EXPIRED,
     INVALID_TOKEN |-> INVALID_TOKEN,
     NOTE_NOT_FOUND |-> NOTE_NOT_FOUND,
     UNKNOWN_ERROR |-> UNKNOWN_ERROR,
     OK |-> OK]

\* DatabaseManager.<name>: an attribute the class does not have raises
getattr(name) ==
    IF name \in DOMAIN DatabaseManager THEN DatabaseManager[name]
    ELSE Raise("AttributeError")

\* except Exception as e: return jsonify({"error": str(e)}), 500
except_Exception(e) == Response(500, [error |-> e.raise])

\* Note.to_dict, entity/note.py
to_dict(n) == [id |-> n.note_id, user_id |-> n.user_id, title |-> n.title,
               content |-> n.content, created_at |-> n.created_at,
               updated_at |-> n.updated_at]

\* (_, token) = result; return jsonify({"token": token}), 200
token_response(result) ==
    IF IsUserToken(result) THEN Response(200, [token |-> result.token])
    ELSE except_Exception(Raise("ValueError"))

\* api.py:20-56; line 47 looks up DatabaseManager.INVALID_PASSWORD
sign_in(result) ==
    IF IsRaise(result) THEN except_Exception(result)
    ELSE IF result = None \/ result = getattr("UNKNOWN_ERROR")
         THEN Response(500, [error |-> getattr("UNKNOWN_ERROR")])
    ELSE IF IsRaise(getattr("INVALID_PASSWORD"))
         THEN except_Exception(getattr("INVALID_PASSWORD"))
    ELSE IF result = getattr("INVALID_PASSWORD")
            \/ result = getattr("USER_NOT_FOUND")
         THEN Response(404, [error |-> result])
    ELSE token_response(result)

\* variant: an existing account is answered like any other result
sign_up_exists_unchecked(result) ==
    IF IsRaise(result) THEN except_Exception(result)
    ELSE IF result = None \/ result = UNKNOWN_ERROR
         THEN Response(500, [error |-> UNKNOWN_ERROR])
    ELSE token_response(result)

\* api.py:59-96
sign_up(result) ==
    IF IsRaise(result) THEN except_Exception(result)
    ELSE IF result = None \/ result = UNKNOWN_ERROR
         THEN Response(500, [error |-> UNKNOWN_ERROR])
    ELSE IF result = USER_ALREADY_EXISTS THEN Response(400, [error |-> result])
    ELSE token_response(result)

\* api.py:99-138
get_notes(result) ==
    IF IsRaise(result) THEN except_Exception(result)
    ELSE IF result = None \/ result = UNKNOWN_ERROR
         THEN Response(500, [error |-> UNKNOWN_ERROR])
    ELSE IF result = TOKEN_EXPIRED \/ result = INVALID_TOKEN
         THEN Response(401, [error |-> result])
    ELSE IF DOMAIN result = {"notes"}
         THEN Response(200, [i \in DOMAIN result.notes |-> to_dict(result.notes[i])])
    ELSE except_Exception(Raise("TypeError"))

\* api.py:141-181
get_note_by_id(result) ==
    IF IsRaise(result) THEN except_Exception(result)
    ELSE IF result = None \/ result = UNKNOWN_ERROR
         THEN Response(500, [error |-> UNKNOWN_ERROR])
    ELSE IF result = TOKEN_EXPIRED \/ result = INVALID_TOKEN
         THEN Response(401, [error |-> result])
    ELSE IF result = NOTE_NOT_FOUND THEN Response(404, [error |-> result])
    ELSE IF DOMAIN result = {"note"} THEN Response(200, to_dict(result.note))
    ELSE except_Exception(Raise("AttributeError"))

\* api.py:184-229
post_note(result) ==
    IF IsRaise(result) THEN except_Exception(result)
    ELSE IF result = None \/ result = UNKNOWN_ERROR
         THEN Response(500, [error |-> UNKNOWN_ERROR])
    ELSE IF result = TOKEN_EXPIRED \/ result = INVALID_TOKEN
         THEN Response(401, [error |-> result])
    ELSE Response(201, [note_id |-> result])

\* api.py:232-281
patch_note(result) ==
    IF IsRaise(result) THEN except_Exception(result)
    ELSE IF result = None \/ result = UNKNOWN_ERROR
         THEN Response(500, [error |-> UNKNOWN_ERROR])
    ELSE IF result = TOKEN_EXPIRED \/ result = INVALID_TOKEN
         THEN Response(401, [error |-> result])
    ELSE IF result = NOTE_NOT_FOUND THEN Response(404, [error |-> result])
    ELSE Response(200, [message |-> OK])

\* api.py:284-323
delete_note_by_id(result) ==
    IF IsRaise(result) THEN except_Exception(result)
    ELSE IF result = None \/ result = UNKNOWN_ERROR
         THEN Response(500, [error |-> UNKNOWN_ERROR])
    ELSE IF result = TOKEN_EXPIRED \/ result = INVALID_TOKEN
         THEN Response(401, [error |-> result])
    ELSE IF result = NOTE_NOT_FOUND THEN Response(404, [error |-> result])
    ELSE Response(200, [message |-> OK])

\* a reply of the translation service with the keys the handler reads
GoodReply ==
    [status_code |-> 200,
     json |-> [data |-> [translations |-> [translatedText |-> <<"text">>]]]]

\* what requests.post gives: a good reply, one without the expected keys, a
\* refusal, or an exception
TranslateReplies ==
    {GoodReply,
     [status_code |-> 200, json |-> [message |-> "quota"]],
     [status_code |-> 429, json |-> [message |-> "quota"]],
     Raise("ConnectionError")}

\* request.json of POST /translate: null, no query, an empty query, a query
TranslateBodies == {None, [source |-> "ru"], [query |-> ""], [query |-> "privet"]}

\* the requests sampled: each body with a good reply, a query with each reply
TranslateRequests ==
    {req \in TranslateBodies \X TranslateReplies :
        req[1] = [query |-> "privet"] \/ req[2] = GoodReply}

\* translated_data["data"]["translations"]["translatedText"][0], or KeyError
translatedText(json) ==
    IF "data" \in DOMAIN json
    THEN [text |-> json.data.translations.translatedText[1]]
    ELSE Raise("KeyError")

\* api.py:326-394: the token is resolved before the try
translate(result, data, reply) ==
    IF IsRaise(result) THEN result
    ELSE IF result = TOKEN_EXPIRED \/ result = INVALID_TOKEN
         THEN Response(401, [error |-> result])
    ELSE IF data = None THEN except_Exception(Raise("AttributeError"))
    ELSE IF "query" \notin DOMAIN data \/ data.query = ""
         THEN Response(400, [error |-> "No text to translate"])
    ELSE IF IsRaise(reply) THEN except_Exception(reply)
    ELSE IF reply.status_code # 200
         THEN Response(500, [error |-> <<"Translation API Error", reply.status_code>>])
    ELSE IF IsRaise(translatedText(reply.json))
         THEN except_Exception(translatedText(reply.json))
    ELSE Response(200, [translation |-> translatedText(reply.json).text])

----------------------------------------------------------------------------
(* The state machine: calls issued one at a time on one DatabaseManager *)

Queries == {<<" ">>, <<"q">>, <<"_">>}

\* the threads of the server that handle requests
Threads == {1, 2}

\* a thread between requests: the call it is in (req), the next store call of
\* that call (pc), its locals user_id and token_value, the value it will
\* return after commit or rollback (pending) and the value it returned
\* (result); selected holds the rows its last SELECT matched, foreign
\* whether a fetch gave it anything else, wrote the rows it inserted and
\* atomic whether the committed tables agreed with what it returned
Idle ==
    [pc |-> "idle", n |-> 0, req |-> None, user_id |-> 0, token_value |-> 0,
     pending |-> None, result |-> None, selected |-> <<>>, foreign |-> FALSE,
     wrote |-> {}, atomic |-> TRUE]

\* no POST /translate request is being handled
NoTranslation == [pc |-> "idle"]

\* st.session_state and st.query_params of a new browser session after the
\* first run of main() (frontend.py:344-349), and what the page shows
\* loaded: the editor showed its buttons; cards: the notes listed with their
\* buttons; shown: the st.success and st.error messages of the last run;
\* save: what the PATCH of the last Save click came to
NewSession ==
    [token |-> None, just_saved |-> FALSE, note |-> 0, loaded |-> FALSE,
     cards |-> {}, shown |-> {}, save |-> "none"]

\* self.conn.cursor(): the rows of the last execute not yet fetched,
\* lastrowid and rowcount
NewCursor == [rows |-> <<>>, lastrowid |-> 0, rowcount |-> 0 - 1]

Init ==
    /\ Users = {}
    /\ Tokens = {}
    /\ Notes = {}
    /\ sqlite_sequence = [Users |-> 0, Notes |-> 0]
    /\ in_transaction = FALSE
    /\ committed = [Users |-> {}, Tokens |-> {}, Notes |-> {},
                    sqlite_sequence |-> [Users |-> 0, Notes |-> 0]]
    /\ now = 0
    /\ utc_shift = 0
    /\ store_faults = FALSE
    /\ threads = [t \in Threads |-> Idle]
    /\ cursor = NewCursor
    /\ translation = NoTranslation
    /\ ui = NewSession
    /\ next_uuid = 1
    /\ minted = {}
    /\ deleted = {}

\* the connection and tables after a call
Apply(st) ==
    /\ Users' = st.Users
    /\ Tokens' = st.Tokens
    /\ Notes' = st.Notes
    /\ sqlite_sequence' = st.sqlite_sequence
    /\ in_transaction' = st.in_transaction
    /\ committed' = st.committed

\* a call that returned (user_id, token) used one uuid4 value and handed it out
Issue(r) ==
    IF IsUserToken(r)
    THEN /\ next_uuid <= MaxUuid
         /\ next_uuid' = next_uuid + 1
         /\ minted' = {m \in minted : m.user_id # r.user_id}
                       \cup {[user_id |-> r.user_id, value |-> r.token, at |-> now]}
    ELSE UNCHANGED <<next_uuid, minted>>

SignUp ==
    \E form \in SignUpForms :
        LET o == create_user(Store, form[1], form[2], form[3],
                             next_uuid, utc_shift, now)
        IN  /\ Apply(o.st)
            /\ Issue(o.ret)
            /\ UNCHANGED <<now, utc_shift, store_faults, threads, cursor, translation, ui, deleted>>

SignIn ==
    \E username \in Usernames, password \in Passwords :
        LET o == verify_user(Store, username, password, next_uuid, utc_shift, now)
        IN  /\ Apply(o.st)
            /\ Issue(o.ret)
            /\ UNCHANGED <<now, utc_shift, store_faults, threads, cursor, translation, ui, deleted>>

\* variant: a row found expired is deleted when it is read
Resolve_sweeping ==
    \E user_token \in TokenValues :
        LET swept == IF get_user_id_from_token(Store, user_token, utc_shift, now)
                        = TOKEN_EXPIRED
                     THEN {k \in Tokens : k.value # user_token}
                     ELSE Tokens
        IN  /\ Tokens' = swept
            /\ committed' = [committed EXCEPT !.Tokens = swept]
            /\ UNCHANGED <<Users, Notes, sqlite_sequence, in_transaction, now,
                           utc_shift, store_faults, threads, cursor, translation,
                           ui, next_uuid, minted, deleted>>

Resolve ==
    \E user_token \in TokenValues :
        /\ get_user_id_from_token(Store, user_token, utc_shift, now)
               \in {TOKEN_EXPIRED, INVALID_TOKEN} \cup {UserId(u.user_id) : u \in Users}
        /\ UNCHANGED <<Users, Tokens, Notes, sqlite_sequence, in_transaction,
                       committed, now, utc_shift, store_faults, threads, cursor, translation, ui, next_uuid, minted, deleted>>

CreateNote ==
    \E user_token \in TokenValues, text \in NoteTexts :
        LET o == create_note(Store, user_token, text[1], text[2], utc_shift, now)
        IN  /\ o.st.sqlite_sequence.Notes <= MaxNotes
            /\ Apply(o.st)
            /\ UNCHANGED <<now, utc_shift, store_faults, threads, cursor, translation, ui, next_uuid, minted, deleted>>

GetNote ==
    \E user_token \in TokenValues, note_id \in NoteIds :
        LET o == get_note(Store, note_id, user_token, utc_shift, now)
        IN  /\ Apply(o.st)
            /\ UNCHANGED <<now, utc_shift, store_faults, threads, cursor, translation, ui, next_uuid, minted, deleted>>

GetAllNotes ==
    \E user_token \in TokenValues, search_query \in Queries :
        \E o \in get_all_notes(Store, user_token, search_query, utc_shift, now) :
            /\ Apply(o.st)
            /\ UNCHANGED <<now, utc_shift, store_faults, threads, cursor, translation, ui, next_uuid, minted, deleted>>

UpdateNote ==
    \E user_token \in TokenValues, note_id \in NoteIds, text \in NoteTexts :
        LET o == update_note(Store, note_id, user_token, text[1], text[2],
                             utc_shift, now)
        IN  /\ Apply(o.st)
            /\ UNCHANGED <<now, utc_shift, store_faults, threads, cursor, translation, ui, next_uuid, minted, deleted>>

DeleteNote ==
    \E user_token \in TokenValues, note_id \in NoteIds :
        LET o == delete_note(Store, note_id, user_token, utc_shift, now)
        IN  /\ Apply(o.st)
            /\ deleted' = IF o.ret = OK THEN deleted \cup {note_id} ELSE deleted
            /\ UNCHANGED <<now, utc_shift, store_faults, threads, cursor, translation, ui, next_uuid, minted>>

\* time passes between calls
Tick ==
    /\ \E t \in Instants(utc_shift) : t > now /\ now' = t
    /\ UNCHANGED <<Users, Tokens, Notes, sqlite_sequence, in_transaction,
                   committed, utc_shift, store_faults, threads, cursor, translation, ui, next_uuid, minted, deleted>>

Next ==
    \/ SignUp
    \/ SignIn
    \/ Resolve
    \/ CreateNote
    \/ GetNote
    \/ GetAllNotes
    \/ UpdateNote
    \/ DeleteNote
    \/ Tick

\* a host whose zone keeps one UTC offset
Spec == Init /\ [][Next]_vars

\* a host whose zone changes its UTC offset at DstAt
InitDst ==
    /\ Users = {}
    /\ Tokens = {}
    /\ Notes = {}
    /\ sqlite_sequence = [Users |-> 0, Notes |-> 0]
    /\ in_transaction = FALSE
    /\ committed = [Users |-> {}, Tokens |-> {}, Notes |-> {},
                    sqlite_sequence |-> [Users |-> 0, Notes |-> 0]]
    /\ now = 0
    /\ utc_shift \in DstShifts
    /\ store_faults = FALSE
    /\ threads = [t \in Threads |-> Idle]
    /\ cursor = NewCursor
    /\ translation = NoTranslation
    /\ ui = NewSession
    /\ next_uuid = 1
    /\ minted = {}
    /\ deleted = {}

SpecDst == InitDst /\ [][Next]_vars

----------------------------------------------------------------------------
(* The program as deployed: requests served through the adapter on the       *)
(* module-level db_manager, one at a time, over a store that may fault.      *)

NoFault == {"none"}
\* the calls of a method that may raise on this host
Faults(calls) == IF store_faults THEN NoFault \cup calls ELSE NoFault

PostSignIn ==
    \E username \in Usernames, password \in Passwords,
       at \in Faults(VerifyUserCalls) :
        LET o == verify_user_fault(Store, username, password, next_uuid,
                                   utc_shift, now, at)
        IN  /\ IsResponse(sign_in(o.ret))
            /\ Apply(o.st)
            /\ Issue(o.ret)
            /\ UNCHANGED <<now, utc_shift, store_faults, threads, cursor, translation, ui, deleted>>

PostSignUp ==
    \E form \in SignUpForms, at \in Faults(CreateUserCalls) :
        LET o == create_user_fault(Store, form[1], form[2], form[3],
                                   next_uuid, utc_shift, now, at)
        IN  /\ IsResponse(sign_up(o.ret))
            /\ Apply(o.st)
            /\ Issue(o.ret)
            /\ UNCHANGED <<now, utc_shift, store_faults, threads, cursor, translation, ui, deleted>>

GetNotes ==
    \E user_token \in TokenValues, search_query \in Queries,
       at \in Faults(GetAllNotesCalls) :
        \E o \in get_all_notes_fault(Store, user_token, search_query,
                                     utc_shift, now, at) :
            /\ IsResponse(get_notes(o.ret))
            /\ Apply(o.st)
            /\ UNCHANGED <<now, utc_shift, store_faults, threads, cursor, translation, ui, next_uuid, minted, deleted>>

GetNoteById ==
    \E user_token \in TokenValues, id \in NoteIds,
       at \in Faults(GetNoteCalls) :
        LET o == get_note_fault(Store, id, user_token, utc_shift, now, at)
        IN  /\ IsResponse(get_note_by_id(o.ret))
            /\ Apply(o.st)
            /\ UNCHANGED <<now, utc_shift, store_faults, threads, cursor, translation, ui, next_uuid, minted, deleted>>

PostNote ==
    \E user_token \in TokenValues, text \in NoteTexts,
       at \in Faults(CreateNoteCalls) :
        LET o == create_note_fault(Store, user_token, text[1], text[2],
                                   utc_shift, now, at)
        IN  /\ o.st.sqlite_sequence.Notes <= MaxNotes
            /\ IsResponse(post_note(o.ret))
            /\ Apply(o.st)
            /\ UNCHANGED <<now, utc_shift, store_faults, threads, cursor, translation, ui, next_uuid, minted, deleted>>

PatchNote ==
    \E user_token \in TokenValues, id \in NoteIds, text \in NoteTexts,
       at \in Faults(UpdateNoteCalls) :
        LET o == update_note_fault(Store, id, user_token, text[1], text[2],
                                   utc_shift, now, at)
        IN  /\ IsResponse(patch_note(o.ret))
            /\ Apply(o.st)
            /\ UNCHANGED <<now, utc_shift, store_faults, threads, cursor, translation, ui, next_uuid, minted, deleted>>

DeleteNoteById ==
    \E user_token \in TokenValues, id \in NoteIds,
       at \in Faults(DeleteNoteCalls) :
        LET o == delete_note_fault(Store, id, user_token, utc_shift, now, at)
        IN  /\ IsResponse(delete_note_by_id(o.ret))
            /\ Apply(o.st)
            /\ deleted' = IF o.ret = OK THEN deleted \cup {id} ELSE deleted
            /\ UNCHANGED <<now, utc_shift, store_faults, threads, cursor, translation, ui, next_uuid, minted>>

\* the handler answers, or the exception leaves it
PostTranslate ==
    \E user_token \in TokenValues, at \in Faults(ResolveCalls),
       req \in TranslateRequests :
        LET r == translate(get_user_id_from_token_fault(Store, user_token,
                                                        utc_shift, now, at),
                           req[1], req[2])
        IN  /\ IsResponse(r) \/ IsRaise(r)
            /\ UNCHANGED vars

ApiNext ==
    \/ PostSignIn
    \/ PostSignUp
    \/ GetNotes
    \/ GetNoteById
    \/ PostNote
    \/ PatchNote
    \/ DeleteNoteById
    \/ PostTranslate
    \/ Tick

\* a store that answers every call
SpecApi == Init /\ [][ApiNext]_vars

\* a store whose calls may raise sqlite3.Error
InitFault ==
    /\ Users = {}
    /\ Tokens = {}
    /\ Notes = {}
    /\ sqlite_sequence = [Users |-> 0, Notes |-> 0]
    /\ in_transaction = FALSE
    /\ committed = [Users |-> {}, Tokens |-> {}, Notes |-> {},
                    sqlite_sequence |-> [Users |-> 0, Notes |-> 0]]
    /\ now = 0
    /\ utc_shift = 0
    /\ store_faults = TRUE
    /\ threads = [t \in Threads |-> Idle]
    /\ cursor = NewCursor
    /\ translation = NoTranslation
    /\ ui = NewSession
    /\ next_uuid = 1
    /\ minted = {}
    /\ deleted = {}

SpecApiFault == InitFault /\ [][ApiNext]_vars

----------------------------------------------------------------------------
(* Concurrent requests.  The server handles each request on a thread of its  *)
(* own; every thread calls the one module-level db_manager (api.py:17),     *)
(* whose connection is opened with check_same_thread=False and whose        *)
(* cursor is created once (db.py:43-49).  A step of a thread is one call    *)
(* into sqlite3 with the Python statements up to the next call.             *)

MaxRequests == 2     \* requests one thread serves in one behaviour

ThreadTokens == 1 .. 2

\* the calls the threads make on db_manager
ThreadRequests ==
    {[op |-> "create_user", form |-> f] :
        f \in {<<"alice", "password123", "a@example.com">>,
               <<"bob", "wrong_password", "b@example.com">>}}
    \cup {[op |-> "verify_user", username |-> "alice", password |-> p] :
            p \in Passwords}
    \cup {[op |-> "get_user_id_from_token", user_token |-> v] : v \in ThreadTokens}
    \cup {[op |-> "create_note", user_token |-> v, text |-> <<<<"z">>, "C2">>] :
            v \in ThreadTokens}
    \cup {[op |-> "get_note", user_token |-> v, note_id |-> 1] : v \in ThreadTokens}
    \cup {[op |-> "get_all_notes", user_token |-> v, search_query |-> <<" ">>] :
            v \in ThreadTokens}
    \cup {[op |-> "update_note", user_token |-> v, note_id |-> 1,
           text |-> <<<<"Q", "1">>, "C1">>] : v \in ThreadTokens}
    \cup {[op |-> "delete_note", user_token |-> v, note_id |-> 1] :
            v \in ThreadTokens}

\* the first store call of a method
FirstCall(op) ==
    CASE op = "create_user" -> "insert_user"
      [] op = "verify_user" -> "begin"
      [] OTHER -> "select_token"

\* the store call of a note method once the token is resolved
Statement(op) ==
    CASE op = "create_note" -> "insert_note"
      [] op = "get_note" -> "select_note"
      [] op = "get_all_notes" -> "select_notes"
      [] op = "update_note" -> "update_notes"
      [] op = "delete_note" -> "delete_notes"

db == <<Users, Tokens, Notes, sqlite_sequence, in_transaction, committed>>
host == <<now, utc_shift, store_faults, minted, deleted>>

\* the rows of a SELECT that matches at most one row
Rows(S) == IF S = {} THEN <<>> ELSE <<CHOOSE r \in S : TRUE>>

\* cursor.execute of a statement: the rows it selects replace those of the
\* statement executed before
execute(c, rows) == [c EXCEPT !.rows = rows]

\* cursor.fetchone(): the next row of the statement executed last, or None
fetchone(c) == IF c.rows = <<>> THEN None ELSE Head(c.rows)
fetched(c) == [c EXCEPT !.rows = IF @ = <<>> THEN @ ELSE Tail(@)]

\* the row fetchone gives a thread whose SELECT was the last statement
Own(th) == fetchone([rows |-> th.selected])

\* db.py:240-250 on the row fetched: user_id, expiration = result unpacks a
\* row of two columns; a row of another statement raises
token_row(row, shift, t) ==
    IF row = None THEN INVALID_TOKEN
    ELSE IF DOMAIN row = {"user_id", "expiration"}
         THEN IF row.expiration > current_timestamp_millis(shift, t)
              THEN UserId(row.user_id)
              ELSE TOKEN_EXPIRED
    ELSE IF DOMAIN row = {"user_id", "password_hash"} THEN Raise("TypeError")
    ELSE Raise("ValueError")

\* db.py:316-321 and Note.from_row on the row fetched
note_row(row) ==
    IF row = None THEN NOTE_NOT_FOUND
    ELSE IF "note_id" \in DOMAIN row THEN NoteOf(row)
    ELSE Raise("IndexError")

\* db.py:378-379: list(map(Note.from_row, notes))
note_rows(rows) ==
    IF \A i \in DOMAIN rows : "note_id" \in DOMAIN rows[i]
    THEN [notes |-> rows]
    ELSE Raise("IndexError")

\* whether the tables as committed hold what the call reports: the rows of a
\* call that returned success, none of the rows of one that returned failure
Written(th, result, tables) ==
    CASE th.req.op = "create_user" ->
           IF IsUserToken(result)
           THEN /\ \E u \in tables.Users :
                      u.user_id = result.user_id /\ u.username = th.req.form[1]
                /\ \E k \in tables.Tokens :
                      k.user_id = result.user_id /\ k.value = result.token
           ELSE th.wrote \cap tables.Users = {}
      [] th.req.op = "verify_user" ->
           IsUserToken(result) =>
               \E k \in tables.Tokens :
                   k.user_id = result.user_id /\ k.value = result.token
      [] th.req.op = "create_note" ->
           "note_id" \in DOMAIN result =>
               \E n \in tables.Notes :
                   /\ n.note_id = result.note_id
                   /\ n.user_id = th.user_id
                   /\ n.title = th.req.text[1]
                   /\ n.content = th.req.text[2]
      [] th.req.op = "update_note" ->
           result = OK =>
               \E n \in tables.Notes :
                   /\ n.note_id = th.req.note_id
                   /\ n.user_id = th.user_id
                   /\ n.title = th.req.text[1]
                   /\ n.content = th.req.text[2]
      [] th.req.op = "delete_note" ->
           result = OK => ~ \E n \in tables.Notes : n.note_id = th.req.note_id
      [] OTHER -> TRUE

\* the thread after the call returned result
Return(th, result, tables) ==
    [th EXCEPT !.pc = "done", !.result = result, !.pending = None,
               !.selected = <<>>, !.wrote = {}, !.user_id = 0,
               !.token_value = 0,
               !.atomic = Written(th, result, tables)]

\* a thread takes the next request and enters the method
Accept(t) ==
    /\ threads[t].pc \in {"idle", "done"}
    /\ threads[t].n < MaxRequests
    /\ \E req \in ThreadRequests :
         threads' = [threads EXCEPT ![t] =
                        [Idle EXCEPT !.pc = FirstCall(req.op),
                                     !.n = threads[t].n + 1, !.req = req]]
    /\ UNCHANGED <<db, cursor, next_uuid, host, translation, ui>>

\* db.py:232-237: cursor.execute(SELECT ... WHERE Tokens.value = ?)
ExecuteSelectToken(t) ==
    LET th == threads[t]
        rows == Rows(select_token(Store, th.req.user_token))
    IN  /\ th.pc = "select_token"
        /\ cursor' = execute(cursor, rows)
        /\ threads' = [threads EXCEPT ![t].pc = "fetch_token",
                                      ![t].selected = rows]
        /\ UNCHANGED <<db, next_uuid, host, translation, ui>>

\* db.py:238-250: cursor.fetchone() and the checks on the row; the note
\* methods go on with the user_id unless it is a sentinel (db.py:287-294)
FetchToken(t) ==
    LET th == threads[t]
        result == token_row(fetchone(cursor), utc_shift, now)
        seen == [th EXCEPT
                   !.foreign = @ \/ result # token_row(Own(th), utc_shift, now)]
    IN  /\ th.pc = "fetch_token"
        /\ cursor' = fetched(cursor)
        /\ threads' = [threads EXCEPT ![t] =
              IF \/ th.req.op = "get_user_id_from_token"
                 \/ IsRaise(result)
                 \/ IsAuthFailure(result)
              THEN Return(seen, result, committed)
              ELSE [seen EXCEPT !.pc = Statement(th.req.op),
                                !.user_id = result.user_id,
                                !.selected = <<>>]]
        /\ UNCHANGED <<db, next_uuid, host, translation, ui>>

\* db.py:131-140: INSERT INTO Users, user_id = cursor.lastrowid, uuid4()
InsertUser(t) ==
    LET th == threads[t]
        form == th.req.form
        ins == insert_user(begin_dml(Store), form[1], hashpw(form[2], Salt),
                           form[3])
    IN  /\ th.pc = "insert_user"
        /\ next_uuid <= MaxUuid
        /\ Apply(ins.st)
        /\ IF ins.error = "IntegrityError"
           THEN /\ cursor' = execute(cursor, <<>>)
                /\ threads' = [threads EXCEPT ![t].pc = "rollback",
                                   ![t].pending = USER_ALREADY_EXISTS]
                /\ UNCHANGED next_uuid
           ELSE /\ cursor' = [execute(cursor, <<>>) EXCEPT
                                 !.lastrowid = ins.lastrowid]
                /\ threads' = [threads EXCEPT ![t].pc = "insert_token",
                                   ![t].user_id = ins.lastrowid,
                                   ![t].token_value = next_uuid,
                                   ![t].wrote = ins.st.Users \ Users]
                /\ next_uuid' = next_uuid + 1
        /\ UNCHANGED <<host, translation, ui>>

\* db.py:141-146: INSERT INTO Tokens; Tokens.user_id is the rowid
InsertToken(t) ==
    LET th == threads[t]
        tok == insert_token(begin_dml(Store), th.token_value, th.user_id,
                            next_day_timestamp_millis(utc_shift, now))
    IN  /\ th.pc = "insert_token"
        /\ Apply(tok.st)
        /\ IF tok.error = "IntegrityError"
           THEN /\ cursor' = execute(cursor, <<>>)
                /\ threads' = [threads EXCEPT ![t].pc = "rollback",
                                   ![t].pending = USER_ALREADY_EXISTS]
           ELSE /\ cursor' = [execute(cursor, <<>>) EXCEPT
                                 !.lastrowid = th.user_id]
                /\ threads' = [threads EXCEPT ![t].pc = "commit",
                                   ![t].pending = UserToken(th.user_id,
                                                            th.token_value)]
        /\ UNCHANGED <<next_uuid, host, translation, ui>>

\* self.conn.commit() and the return that follows it; _create_note returns
\* self.cursor.lastrowid (db.py:269-270)
Commit(t) ==
    LET th == threads[t]
        st == commit(Store)
        result == IF th.req.op = "create_note" THEN NoteId(cursor.lastrowid)
                  ELSE th.pending
    IN  /\ th.pc = "commit"
        /\ Apply(st)
        /\ threads' = [threads EXCEPT ![t] = Return(th, result, st.committed)]
        /\ UNCHANGED <<cursor, next_uuid, host, translation, ui>>

\* self.conn.rollback() and the return that follows it
Rollback(t) ==
    LET th == threads[t]
        st == rollback(Store)
    IN  /\ th.pc = "rollback"
        /\ Apply(st)
        /\ threads' = [threads EXCEPT ![t] =
                          Return(th, th.pending, st.committed)]
        /\ UNCHANGED <<cursor, next_uuid, host, translation, ui>>

\* db.py:170: BEGIN TRANSACTION raises sqlite3.OperationalError while the
\* connection is in a transaction (db.py:202-205)
BeginTransaction(t) ==
    LET th == threads[t]
    IN  /\ th.pc = "begin"
        /\ cursor' = execute(cursor, <<>>)
        /\ IF in_transaction
           THEN /\ threads' = [threads EXCEPT ![t].pc = "rollback",
                                   ![t].pending = UNKNOWN_ERROR]
                /\ UNCHANGED db
           ELSE /\ threads' = [threads EXCEPT ![t].pc = "select_user"]
                /\ in_transaction' = TRUE
                /\ UNCHANGED <<Users, Tokens, Notes, sqlite_sequence, committed>>
        /\ UNCHANGED <<next_uuid, host, translation, ui>>

\* db.py:172-174: SELECT user_id, password_hash FROM Users WHERE username = ?
ExecuteSelectUser(t) ==
    LET th == threads[t]
        rows == Rows({[user_id |-> u.user_id, password_hash |-> u.password_hash] :
                        u \in select_user(Store, th.req.username)})
    IN  /\ th.pc = "select_user"
        /\ cursor' = execute(cursor, rows)
        /\ threads' = [threads EXCEPT ![t].pc = "fetch_user",
                                      ![t].selected = rows]
        /\ UNCHANGED <<db, next_uuid, host, translation, ui>>

\* db.py:175-200: user = cursor.fetchone(); user['password_hash'] raises
\* IndexError on a row of another statement, which except sqlite3.Error does
\* not catch
FetchUser(t) ==
    LET th == threads[t]
        user == fetchone(cursor)
        seen == [th EXCEPT !.foreign = @ \/ user # Own(th),
                           !.selected = <<>>]
    IN  /\ th.pc = "fetch_user"
        /\ cursor' = fetched(cursor)
        /\ IF user = None
           THEN /\ threads' = [threads EXCEPT ![t] =
                      [seen EXCEPT !.pc = "rollback", !.pending = USER_NOT_FOUND]]
                /\ UNCHANGED next_uuid
           ELSE IF "password_hash" \notin DOMAIN user
           THEN /\ threads' = [threads EXCEPT ![t] =
                      Return(seen, Raise("IndexError"), committed)]
                /\ UNCHANGED next_uuid
           ELSE IF checkpw(th.req.password, user.password_hash)
           THEN /\ next_uuid <= MaxUuid
                /\ threads' = [threads EXCEPT ![t] =
                      [seen EXCEPT !.pc = "replace_token",
                                   !.user_id = user.user_id,
                                   !.token_value = next_uuid]]
                /\ next_uuid' = next_uuid + 1
           ELSE /\ threads' = [threads EXCEPT ![t] =
                      [seen EXCEPT !.pc = "rollback",
                                   !.pending = STATUS_INVALID_PASSWORD]]
                /\ UNCHANGED next_uuid
        /\ UNCHANGED <<db, host, translation, ui>>

\* db.py:187-192: INSERT OR REPLACE INTO Tokens
ReplaceToken(t) ==
    LET th == threads[t]
        st == replace_token(begin_dml(Store), th.user_id, th.token_value,
                            next_day_timestamp_millis(utc_shift, now))
    IN  /\ th.pc = "replace_token"
        /\ Apply(st)
        /\ cursor' = [execute(cursor, <<>>) EXCEPT !.lastrowid = th.user_id]
        /\ threads' = [threads EXCEPT ![t].pc = "commit",
                           ![t].pending = UserToken(th.user_id, th.token_value)]
        /\ UNCHANGED <<next_uuid, host, translation, ui>>

\* db.py:265-268: INSERT INTO Notes
InsertNote(t) ==
    LET th == threads[t]
        ins == insert_note(begin_dml(Store), th.user_id, th.req.text[1],
                           th.req.text[2], now)
    IN  /\ th.pc = "insert_note"
        /\ ins.st.sqlite_sequence.Notes <= MaxNotes
        /\ Apply(ins.st)
        /\ cursor' = [execute(cursor, <<>>) EXCEPT !.lastrowid = ins.lastrowid]
        /\ threads' = [threads EXCEPT ![t].pc = "commit"]
        /\ UNCHANGED <<next_uuid, host, translation, ui>>

\* db.py:311-314: SELECT * FROM Notes WHERE note_id = ? AND user_id = ?
ExecuteSelectNote(t) ==
    LET th == threads[t]
        rows == Rows(select_note(Store, th.req.note_id, th.user_id))
    IN  /\ th.pc = "select_note"
        /\ cursor' = execute(cursor, rows)
        /\ threads' = [threads EXCEPT ![t].pc = "fetch_note",
                                      ![t].selected = rows]
        /\ UNCHANGED <<db, next_uuid, host, translation, ui>>

\* db.py:316-321: note = cursor.fetchone(); Note.from_row(note)
FetchNote(t) ==
    LET th == threads[t]
        seen == [th EXCEPT
                   !.foreign = @ \/ note_row(fetchone(cursor)) # note_row(Own(th))]
    IN  /\ th.pc = "fetch_note"
        /\ cursor' = fetched(cursor)
        /\ threads' = [threads EXCEPT ![t] =
                          Return(seen, note_row(fetchone(cursor)), committed)]
        /\ UNCHANGED <<db, next_uuid, host, translation, ui>>

\* db.py:363-376: SELECT * FROM Notes WHERE user_id = ? ... ORDER BY
ExecuteSelectNotes(t) ==
    LET th == threads[t]
    IN  /\ th.pc = "select_notes"
        /\ \E s \in order_by_updated_at_desc(
                        select_notes(Store, th.user_id,
                                     strip(th.req.search_query))) :
             LET rows == SubSeq(s, 1, Len(s))
             IN  /\ cursor' = execute(cursor, rows)
                 /\ threads' = [threads EXCEPT ![t].pc = "fetch_notes",
                                               ![t].selected = rows]
        /\ UNCHANGED <<db, next_uuid, host, translation, ui>>

\* db.py:378-379: notes = cursor.fetchall(); list(map(Note.from_row, notes))
FetchAllNotes(t) ==
    LET th == threads[t]
        seen == [th EXCEPT
                   !.foreign = @ \/ note_rows(cursor.rows) # note_rows(th.selected)]
    IN  /\ th.pc = "fetch_notes"
        /\ cursor' = [cursor EXCEPT !.rows = <<>>]
        /\ threads' = [threads EXCEPT ![t] =
                          Return(seen, note_rows(cursor.rows), committed)]
        /\ UNCHANGED <<db, next_uuid, host, translation, ui>>

\* db.py:420-426: UPDATE Notes; with rowcount 0 the method returns
UpdateNotes(t) ==
    LET th == threads[t]
        upd == update_notes(begin_dml(Store), th.req.text[1], th.req.text[2],
                            th.req.note_id, th.user_id, now)
    IN  /\ th.pc = "update_notes"
        /\ Apply(upd.st)
        /\ cursor' = [execute(cursor, <<>>) EXCEPT !.rowcount = upd.rowcount]
        /\ threads' = [threads EXCEPT ![t] =
              IF upd.rowcount = 0
              THEN Return(th, NOTE_NOT_FOUND, committed)
              ELSE [th EXCEPT !.pc = "commit", !.pending = OK]]
        /\ UNCHANGED <<next_uuid, host, translation, ui>>

\* db.py:471-477: DELETE FROM Notes; with rowcount 0 the method returns
DeleteNotes(t) ==
    LET th == threads[t]
        del == delete_notes(begin_dml(Store), th.req.note_id, th.user_id)
    IN  /\ th.pc = "delete_notes"
        /\ Apply(del.st)
        /\ cursor' = [execute(cursor, <<>>) EXCEPT !.rowcount = del.rowcount]
        /\ threads' = [threads EXCEPT ![t] =
              IF del.rowcount = 0
              THEN Return(th, NOTE_NOT_FOUND, committed)
              ELSE [th EXCEPT !.pc = "commit", !.pending = OK]]
        /\ UNCHANGED <<next_uuid, host, translation, ui>>

ThreadsNext ==
    \E t \in Threads :
        \/ Accept(t)
        \/ ExecuteSelectToken(t)
        \/ FetchToken(t)
        \/ InsertUser(t)
        \/ InsertToken(t)
        \/ Commit(t)
        \/ Rollback(t)
        \/ BeginTransaction(t)
        \/ ExecuteSelectUser(t)
        \/ FetchUser(t)
        \/ ReplaceToken(t)
        \/ InsertNote(t)
        \/ ExecuteSelectNote(t)
        \/ FetchNote(t)
        \/ ExecuteSelectNotes(t)
        \/ FetchAllNotes(t)
        \/ UpdateNotes(t)
        \/ DeleteNotes(t)

\* requests served concurrently on the shared connection and cursor
SpecThreads == Init /\ [][ThreadsNext]_vars

----------------------------------------------------------------------------
(* The Streamlit front end, frontend.py.  Every interaction runs the script *)
(* main() from the top with the clicked button reading True; st.rerun()    *)
(* abandons the run and starts another, whose output replaces what the     *)
(* abandoned run had drawn.  An action is one interaction up to the end of *)
(* its last run.  The backend is the environment: each api_request gets a  *)
(* reply from the replies HTTP allows for its path.  The text typed in the *)
(* fields is not part of the state.                                        *)

\* parsed JSON: a dict and a list of Python
Object(fields) == [object |-> fields]
Array(items) == [array |-> items]
IsObject(v) == DOMAIN v = {"object"}
\* a body that is no JSON text: empty, or an HTML error page
NotJson(text) == [text |-> text]

\* str(resp.status_code) in the f-string of frontend.py:91
str(status_code) ==
    CASE status_code = 400 -> "400" [] status_code = 401 -> "401"
      [] status_code = 404 -> "404" [] status_code = 500 -> "500"
      [] status_code = 502 -> "502"

\* what requests.request can come to when the call fails: no connection,
\* an error of the backend (api.py answers {"error": ...}), an HTML error page
\* (Flask's own 500), a gateway's error whose JSON body is a list
Failures ==
    {Raise("ConnectionError"),
     Response(401, Object([error |-> "token_expired"])),
     Response(404, Object([error |-> "note_not_found"])),
     Response(400, Object([error |-> ""])),
     Response(500, NotJson("<html>")),
     Response(502, Array(<<"Bad Gateway">>))}

UiNotes == 1 .. 2
NoteCard(id) == Object([id |-> id, title |-> "t", content |-> "c"])

\* the replies to a request: the failures, a success without body, and the
\* success body api.py sends for the path
Replies(path) ==
    Failures \cup {Response(200, NotJson(""))} \cup
    CASE path \in {"/sign_in", "/sign_up"} ->
             {Response(200, Object([token |-> 1]))}
      [] path = "GET /notes" ->
             {Response(200, Array(<<>>)),
              Response(200, Array(<<NoteCard(1)>>)),
              Response(200, Array(<<NoteCard(2), NoteCard(1)>>))}
      [] path = "POST /notes" ->
             {Response(201, Object([note_id |-> id])) : id \in UiNotes}
      [] path = "GET /notes/id" -> {Response(200, NoteCard(id)) : id \in UiNotes}
      [] path \in {"PATCH /notes/id", "DELETE /notes/id"} ->
             {Response(200, Object([message |-> "ok"]))}
      [] path = "/translate" ->
             {Response(200, Object([translation |-> "hello"]))}

\* frontend.py:30-39: response.json() raises ValueError on a body that is no
\* JSON text
_safe_json_parse(response) ==
    IF DOMAIN response.body = {"text"} THEN Object(<<>>) ELSE response.body

\* frontend.py:42-96; error holds the text given to st.error, if any.
\* raise_for_status raises HTTPError for the statuses from 400 on; .get is
\* looked up on whatever the body parsed to.
api_request(reply) ==
    IF IsRaise(reply)
    THEN [ret |-> None, error |-> {<<"Connection Error: ", reply.raise>>}]
    ELSE IF reply.status >= 400
         THEN LET body == _safe_json_parse(reply)
              IN  IF ~IsObject(body) THEN Raise("AttributeError")
                  ELSE LET err == IF "error" \in DOMAIN body.object
                                  THEN body.object.error ELSE ""
                       IN  [ret |-> None,
                            error |-> {<<"API Error: ",
                                         IF err # "" THEN err
                                         ELSE str(reply.status)>>}]
         ELSE [ret |-> _safe_json_parse(reply), error |-> {}]

\* the truth value Python gives to what api_request returned
bool(ret) == ret # None /\ ret # Object(<<>>) /\ ret # Array(<<>>)
\* `resp and resp.get(key)`
get(ret, key) == bool(ret) /\ key \in DOMAIN ret.object

\* an exception leaves the script: the run ends and the page shows it
uncaught(u, exc, shown) ==
    [u EXCEPT !.loaded = FALSE, !.cards = {},
              !.shown = shown \cup {<<exc.raise>>}]

\* frontend.py:172-186
render_auth(u) == [u EXCEPT !.loaded = FALSE, !.cards = {}, !.shown = {}]

\* frontend.py:241-271, no button clicked
render_editor(u, reply) ==
    LET note == api_request(reply)
    IN  IF IsRaise(note) THEN uncaught(u, note, {})
        ELSE IF ~bool(note.ret)
             THEN [u EXCEPT !.loaded = FALSE, !.cards = {},
                            !.shown = note.error \cup {<<"Failed to load note.">>}]
        ELSE [u EXCEPT !.loaded = TRUE, !.cards = {}, !.shown = {}]

\* frontend.py:296-323, no button clicked
render_list(u, reply) ==
    LET saved == IF u.just_saved THEN {<<"Saved.">>} ELSE {}
        u1 == [u EXCEPT !.just_saved = FALSE]
        notes == api_request(reply)
    IN  IF IsRaise(notes) THEN uncaught(u1, notes, saved)
        ELSE [u1 EXCEPT !.loaded = FALSE,
                        !.cards = IF bool(notes.ret)
                                  THEN {notes.ret.array[i].object.id :
                                            i \in DOMAIN notes.ret.array}
                                  ELSE {},
                        !.shown = saved \cup notes.error]

\* frontend.py:326-359, no button clicked
main(u, load, list) ==
    IF u.token = None THEN render_auth(u)
    ELSE IF u.note # 0 THEN render_editor(u, load)
    ELSE render_list(u, list)

\* the backend and the host are not part of a browser session
backend ==
    <<Users, Tokens, Notes, sqlite_sequence, in_transaction, committed, now,
      utc_shift, store_faults, threads, cursor, translation, next_uuid, minted,
      deleted>>

\* any input that is no button: typing, the search box, the sidebar radio
Rerun ==
    /\ \E load \in Replies("GET /notes/id"), list \in Replies("GET /notes") :
           ui' = main(ui, load, list)
    /\ UNCHANGED backend

\* frontend.py:122-147, the fields filled and the passwords equal
SignUpClick ==
    /\ ui.token = None
    /\ \E reply \in Replies("/sign_up") :
           LET resp == api_request(reply)
           IN  ui' = (IF IsRaise(resp) THEN uncaught(ui, resp, {})
                     ELSE IF get(resp.ret, "token")
                          THEN [ui EXCEPT !.shown =
                                   {<<"Account created: now sign in.">>}]
                     ELSE [ui EXCEPT !.shown = resp.error])
    /\ UNCHANGED backend

\* frontend.py:150-169, both fields filled
SignInClick ==
    /\ ui.token = None
    /\ \E reply \in Replies("/sign_in"), load \in Replies("GET /notes/id"),
          list \in Replies("GET /notes") :
           LET resp == api_request(reply)
           IN  ui' = (IF IsRaise(resp) THEN uncaught(ui, resp, {})
                     ELSE IF get(resp.ret, "token")
                          THEN main([ui EXCEPT !.token =
                                        Object(resp.ret.object.token)],
                                    load, list)
                     ELSE [ui EXCEPT !.shown = resp.error])
    /\ UNCHANGED backend

\* frontend.py:351-354
LogoutClick ==
    /\ ui.token # None
    /\ ui' = main([ui EXCEPT !.token = None], None, None)
    /\ UNCHANGED backend

\* frontend.py:307-316, then 318-323 when no note was created
AddClick ==
    /\ ui.token # None /\ ui.note = 0
    /\ \E reply \in Replies("POST /notes"), next \in Replies("GET /notes/id"),
          list \in Replies("GET /notes") :
           LET new == api_request(reply)
           IN  ui' = (IF IsRaise(new) THEN uncaught(ui, new, {})
                     ELSE IF get(new.ret, "note_id")
                          THEN main([ui EXCEPT !.note = new.ret.object.note_id],
                                    next, list)
                     ELSE LET u == render_list(ui, list)
                          IN  [u EXCEPT !.shown = @ \cup new.error])
    /\ UNCHANGED backend

\* frontend.py:286-289: the button exists in the run that lists the note
OpenClick ==
    /\ ui.token # None /\ ui.note = 0
    /\ \E nid \in ui.cards :
       \E list \in Replies("GET /notes"), next \in Replies("GET /notes/id") :
           LET u == render_list(ui, list)
           IN  ui' = (IF nid \in u.cards THEN main([u EXCEPT !.note = nid], next, list)
                     ELSE u)
    /\ UNCHANGED backend

\* frontend.py:290-293
DeleteCardClick ==
    /\ ui.token # None /\ ui.note = 0
    /\ \E nid \in ui.cards :
       \E list \in Replies("GET /notes"), reply \in Replies("DELETE /notes/id"),
          next \in Replies("GET /notes") :
           LET u == render_list(ui, list)
               resp == api_request(reply)
           IN  ui' = (IF nid \notin u.cards THEN u
                     ELSE IF IsRaise(resp) THEN uncaught(u, resp, u.shown)
                     ELSE main(u, None, next))
    /\ UNCHANGED backend

\* frontend.py:189-205 with Save clicked, and the run after st.rerun()
_save_note(u, reply, next) ==
    LET resp == api_request(reply)
    IN  IF IsRaise(resp)
        THEN [uncaught(u, resp, {}) EXCEPT !.save = "refused"]
        ELSE main([u EXCEPT !.just_saved = TRUE, !.note = 0,
                            !.save = IF resp.ret # None THEN "accepted"
                                     ELSE "refused"], None, next)

\* the Save button of the editor: render_editor loads the note first
SaveClick ==
    /\ ui.token # None /\ ui.note # 0 /\ ui.loaded
    /\ \E load \in Replies("GET /notes/id"), reply \in Replies("PATCH /notes/id"),
          next \in Replies("GET /notes") :
           LET u == render_editor(ui, load)
           IN  ui' = (IF u.loaded THEN _save_note(u, reply, next) ELSE u)
    /\ UNCHANGED backend

\* frontend.py:99-119, 208-218: the callback runs before the script
TranslateClick ==
    /\ ui.token # None /\ ui.note # 0 /\ ui.loaded
    /\ \E reply \in Replies("/translate"), next \in Replies("GET /notes/id") :
           LET result == api_request(reply)
           IN  ui' = (IF IsRaise(result) THEN uncaught(ui, result, {})
                     ELSE LET u == main(ui, next, None)
                          IN  [u EXCEPT !.shown = @ \cup result.error])
    /\ UNCHANGED backend

\* frontend.py:221-229
DeleteNoteClick ==
    /\ ui.token # None /\ ui.note # 0 /\ ui.loaded
    /\ \E load \in Replies("GET /notes/id"), reply \in Replies("DELETE /notes/id"),
          next \in Replies("GET /notes") :
           LET u == render_editor(ui, load)
               resp == api_request(reply)
           IN  ui' = (IF ~u.loaded THEN u
                     ELSE IF IsRaise(resp) THEN uncaught(u, resp, {})
                     ELSE main([u EXCEPT !.note = 0], None, next))
    /\ UNCHANGED backend

\* frontend.py:232-238
BackClick ==
    /\ ui.token # None /\ ui.note # 0 /\ ui.loaded
    /\ \E load \in Replies("GET /notes/id"), next \in Replies("GET /notes") :
           LET u == render_editor(ui, load)
           IN  ui' = (IF u.loaded THEN main([u EXCEPT !.note = 0], None, next) ELSE u)
    /\ UNCHANGED backend

UiNext ==
    \/ Rerun
    \/ SignUpClick
    \/ SignInClick
    \/ LogoutClick
    \/ AddClick
    \/ OpenClick
    \/ DeleteCardClick
    \/ SaveClick
    \/ TranslateClick
    \/ DeleteNoteClick
    \/ BackClick

\* one browser session against a backend that answers as HTTP allows
SpecUi == Init /\ [][UiNext]_vars

----------------------------------------------------------------------------
(* POST /translate step by step: the handler runs to requests.post and then  *)
(* waits in it for the translation service (api.py:373-377 passes no        *)
(* timeout, so the call returns when the service replies or the connection  *)
(* fails, and not before).                                                  *)

\* variant: the body is not inspected before the call
translate_until_post_unchecked(result, data) ==
    IF IsRaise(result) THEN result
    ELSE IF result = TOKEN_EXPIRED \/ result = INVALID_TOKEN
         THEN Response(401, [error |-> result])
    ELSE IF data = None THEN except_Exception(Raise("AttributeError"))
    ELSE [post |-> [q |-> IF "query" \in DOMAIN data THEN data.query ELSE "",
                    source |-> "ru", target |-> "en"]]

\* api.py:347-372: the answer given before any outbound call, or the payload
\* of the call
translate_until_post(result, data) ==
    IF IsRaise(result) THEN result
    ELSE IF result = TOKEN_EXPIRED \/ result = INVALID_TOKEN
         THEN Response(401, [error |-> result])
    ELSE IF data = None THEN except_Exception(Raise("AttributeError"))
    ELSE IF "query" \notin DOMAIN data \/ data.query = ""
         THEN Response(400, [error |-> "No text to translate"])
    ELSE [post |-> [q |-> data.query, source |-> "ru", target |-> "en"]]

\* api.py:378-394: the answer once requests.post has returned or raised
translate_after_post(reply) ==
    IF IsRaise(reply) THEN except_Exception(reply)
    ELSE IF reply.status_code # 200
         THEN Response(500, [error |-> <<"Translation API Error", reply.status_code>>])
    ELSE IF IsRaise(translatedText(reply.json))
         THEN except_Exception(translatedText(reply.json))
    ELSE Response(200, [translation |-> translatedText(reply.json).text])

\* a request arrives and the handler runs until it answers or calls the service
TranslateRequest ==
    \E user_token \in TokenValues, data \in TranslateBodies :
        LET result == get_user_id_from_token(Store, user_token, utc_shift, now)
            r == translate_until_post(result, data)
        IN  /\ translation.pc # "posting"
            /\ translation' =
                 IF "post" \in DOMAIN r
                 THEN [pc |-> "posting", result |-> result, data |-> data,
                       posted |-> TRUE, payload |-> r.post]
                 ELSE [pc |-> "answered", result |-> result, data |-> data,
                       posted |-> FALSE, response |-> r]
            /\ UNCHANGED <<db, now, utc_shift, store_faults, threads, cursor,
                           ui, next_uuid, minted, deleted>>

\* the translation service replies, or the connection fails
ServiceReplies ==
    \E reply \in TranslateReplies :
        /\ translation.pc = "posting"
        /\ translation' = [pc |-> "answered", result |-> translation.result,
                           data |-> translation.data, posted |-> TRUE,
                           reply |-> reply,
                           response |-> translate_after_post(reply)]
        /\ UNCHANGED <<db, now, utc_shift, store_faults, threads, cursor,
                       ui, next_uuid, minted, deleted>>

TranslateNext ==
    \/ SignUp
    \/ Tick
    \/ TranslateRequest
    \/ ServiceReplies

\* the handler takes its steps; nothing makes the service reply
SpecTranslate ==
    Init /\ [][TranslateNext]_vars /\ WF_vars(TranslateRequest)

----------------------------------------------------------------------------
(* Properties.  Each is stated on the results the methods give in a state   *)
(* the program can reach, for every argument of the input alphabets.       *)

Resolves(v) == get_user_id_from_token(Store, v, utc_shift, now)
IsNote(r) == DOMAIN r = {"note"}
Emails == {f[3] : f \in SignUpForms}
Taken(username, email) == \E u \in Users : u.username = username \/ u.email = email

\* C1: each user has at most one token that resolves; a token that was returned
\* and is not the last one returned to its user resolves to INVALID_TOKEN, and
\* a token resolves to a user only if it is the last one returned to that user.
C1_SingleLiveToken ==
    /\ \A u \in Users :
         Cardinality({v \in TokenValues : Resolves(v) = UserId(u.user_id)}) <= 1
    /\ \A v \in 1 .. (next_uuid - 1) :
         IF \E m \in minted : m.value = v
         THEN LET m == CHOOSE x \in minted : x.value = v
              IN  Resolves(v) \in {UserId(m.user_id), TOKEN_EXPIRED}
         ELSE Resolves(v) = INVALID_TOKEN

\* a second token was returned to a user: the earlier one is invalid, the later resolves
C1_Witness ==
    \E m \in minted : \E v \in 1 .. (m.value - 1) :
        /\ \A x \in minted : x.value # v
        /\ Cardinality(Users) = 1
        /\ Resolves(v) = INVALID_TOKEN
        /\ Resolves(m.value) = UserId(m.user_id)

\* C2: for a note of user A and a live token of another user B, get_note,
\* update_note and delete_note with B's token and the note's id return NOTE_NOT_FOUND.
C2_OwnershipIsolation ==
    \A n \in Notes : \A v \in TokenValues : \A b \in Users :
        (Resolves(v) = UserId(b.user_id) /\ b.user_id # n.user_id) =>
            /\ get_note(Store, n.note_id, v, utc_shift, now).ret = NOTE_NOT_FOUND
            /\ \A text \in NoteTexts :
                 update_note(Store, n.note_id, v, text[1], text[2],
                             utc_shift, now).ret = NOTE_NOT_FOUND
            /\ delete_note(Store, n.note_id, v, utc_shift, now).ret = NOTE_NOT_FOUND

\* a note of one user exists while another user holds a live token
C2_Witness ==
    \E n \in Notes : \E v \in TokenValues : \E b \in Users :
        /\ Resolves(v) = UserId(b.user_id)
        /\ b.user_id # n.user_id
        /\ get_note(Store, n.note_id, v, utc_shift, now).ret = NOTE_NOT_FOUND

\* the rows on which two states of Notes differ
Changed(before, after) == (before \ after) \cup (after \ before)

\* C3: update_note and delete_note that return NOTE_NOT_FOUND leave Notes as it
\* was, and whenever one of them changes Notes the token resolves to a user and
\* every row changed or removed belongs to that user.
C3_NoTransitionByNonOwner ==
    \A v \in TokenValues : \A id \in NoteIds :
        /\ \A text \in NoteTexts :
             LET o == update_note(Store, id, v, text[1], text[2], utc_shift, now)
             IN  /\ o.ret = NOTE_NOT_FOUND => o.st.Notes = Notes
                 /\ o.st.Notes # Notes =>
                      \E u \in Users :
                          /\ Resolves(v) = UserId(u.user_id)
                          /\ \A n \in Changed(Notes, o.st.Notes) :
                               n.user_id = u.user_id
        /\ LET o == delete_note(Store, id, v, utc_shift, now)
           IN  /\ o.ret = NOTE_NOT_FOUND => o.st.Notes = Notes
               /\ o.st.Notes # Notes =>
                    \E u \in Users :
                        /\ Resolves(v) = UserId(u.user_id)
                        /\ \A n \in Changed(Notes, o.st.Notes) :
                             n.user_id = u.user_id

\* a non-owner with a live token is refused on an existing note, whose owner
\* has already updated it
C3_Witness ==
    \E n \in Notes : \E v \in TokenValues : \E text \in NoteTexts :
        /\ n.updated_at > n.created_at
        /\ Resolves(v) \notin {INVALID_TOKEN, TOKEN_EXPIRED, UserId(n.user_id)}
        /\ update_note(Store, n.note_id, v, text[1], text[2],
                       utc_shift, now).ret = NOTE_NOT_FOUND
        /\ delete_note(Store, n.note_id, v, utc_shift, now).ret = NOTE_NOT_FOUND

\* C4: a token minted at T and not superseded resolves to its user at every
\* time before T + 24h and to TOKEN_EXPIRED at every time from T + 24h on.
C4_ExpiresAfter24h ==
    \A m \in minted :
        /\ now < m.at + MillisPerDay => Resolves(m.value) = UserId(m.user_id)
        /\ now >= m.at + MillisPerDay => Resolves(m.value) = TOKEN_EXPIRED

\* what each token-taking note method returns for a token, over all other arguments
NoteCallResults(v) ==
    {create_note(Store, v, text[1], text[2], utc_shift, now) : text \in NoteTexts}
    \cup {get_note(Store, id, v, utc_shift, now) : id \in NoteIds}
    \cup UNION {get_all_notes(Store, v, q, utc_shift, now) : q \in Queries}
    \cup {update_note(Store, id, v, text[1], text[2], utc_shift, now) :
            id \in NoteIds, text \in NoteTexts}
    \cup {delete_note(Store, id, v, utc_shift, now) : id \in NoteIds}

\* C5: with a token that matches no Tokens row the five note methods return
\* INVALID_TOKEN, with a token whose expiration has passed they return
\* TOKEN_EXPIRED, and in both cases the tables are left as they were.
C5_AuthGate ==
    \A v \in TokenValues :
        /\ (\A t \in Tokens : t.value # v) =>
             \A o \in NoteCallResults(v) : o.ret = INVALID_TOKEN /\ o.st = Store
        /\ (\E t \in Tokens : t.value = v /\ t.expiration <= now) =>
             \A o \in NoteCallResults(v) : o.ret = TOKEN_EXPIRED /\ o.st = Store

\* a note exists, its owner's token has expired and another token matches no row
C5_Witness ==
    /\ \E n \in Notes : \E t \in Tokens :
         /\ t.user_id = n.user_id
         /\ t.expiration <= now
         /\ delete_note(Store, n.note_id, t.value, utc_shift, now).ret = TOKEN_EXPIRED
    /\ \E v \in 1 .. (next_uuid - 1) :
         /\ \A t \in Tokens : t.value # v
         /\ \E n \in Notes :
              delete_note(Store, n.note_id, v, utc_shift, now).ret = INVALID_TOKEN

\* C6: create_user with a username or an email already in Users returns
\* USER_ALREADY_EXISTS and leaves Users and Tokens as they were; usernames and
\* emails are pairwise distinct across Users.
C6_DuplicateSignUp ==
    /\ \A username \in Usernames, password \in Passwords, email \in Emails :
         Taken(username, email) =>
            LET o == create_user(Store, username, password, email,
                                 next_uuid, utc_shift, now)
            IN  /\ o.ret = USER_ALREADY_EXISTS
                /\ o.st.Users = Users
                /\ o.st.Tokens = Tokens
    /\ \A u1, u2 \in Users :
         (u1.username = u2.username \/ u1.email = u2.email) => u1 = u2

\* one account exists; a form with its email and a new username is refused, and
\* so is a form with its username and a new email
C6_Witness ==
    \E u \in Users : \E username \in Usernames, email \in Emails :
        /\ Cardinality(Users) = 1
        /\ username # u.username
        /\ email # u.email
        /\ create_user(Store, username, "password123", u.email,
                       next_uuid, utc_shift, now).ret = USER_ALREADY_EXISTS
        /\ create_user(Store, u.username, "password123", email,
                       next_uuid, utc_shift, now).ret = USER_ALREADY_EXISTS

\* C7: in every reachable state verify_user with an existing username and the
\* password given at sign-up returns (user_id, token) for that user.
C7_SignInSucceeds ==
    \A u \in Users : \A password \in Passwords :
        checkpw(password, u.password_hash) =>
            LET r == verify_user(Store, u.username, password,
                                 next_uuid, utc_shift, now).ret
            IN  IsUserToken(r) /\ r.user_id = u.user_id

\* C8: verify_user returns USER_NOT_FOUND for a username no user has and the
\* invalid-password sentinel for an existing username with a password that does
\* not match the stored hash, and in neither case a (user_id, token) pair.
C8_SignInFailures ==
    \A username \in Usernames, password \in Passwords :
        LET r == verify_user(Store, username, password,
                             next_uuid, utc_shift, now).ret
        IN  /\ (\A u \in Users : u.username # username) => r = USER_NOT_FOUND
            /\ \A u \in Users :
                 (u.username = username /\ ~checkpw(password, u.password_hash))
                    => r = STATUS_INVALID_PASSWORD

\* C9: a create_user that returns (user_id, token) adds exactly one row to
\* Users and exactly one row to Tokens, and the token resolves at once, through
\* get_user_id_from_token, to the user_id returned.
C9_SignUpImpliesSignIn ==
    \A form \in SignUpForms :
        LET o == create_user(Store, form[1], form[2], form[3],
                             next_uuid, utc_shift, now)
        IN  IsUserToken(o.ret) =>
              /\ Users \subseteq o.st.Users
              /\ Cardinality(o.st.Users \ Users) = 1
              /\ \A u \in o.st.Users \ Users :
                   /\ u.user_id = o.ret.user_id
                   /\ u.username = form[1]
                   /\ u.email = form[3]
              /\ Tokens \subseteq o.st.Tokens
              /\ Cardinality(o.st.Tokens \ Tokens) = 1
              /\ \A t \in o.st.Tokens \ Tokens :
                   t.user_id = o.ret.user_id /\ t.value = o.ret.token
              /\ ~o.st.in_transaction
              /\ get_user_id_from_token(o.st, o.ret.token, utc_shift, now)
                   = UserId(o.ret.user_id)

\* a second account has just been created: it holds the token returned, which resolves
C9_Witness ==
    \E u \in Users : \E m \in minted :
        /\ Cardinality(Users) = 2
        /\ u.user_id = 2
        /\ m.user_id = u.user_id
        /\ m.at = now
        /\ now > 0
        /\ Resolves(m.value) = UserId(u.user_id)

\* C10: once delete_note has returned OK for a note id, get_note with that id
\* never returns a note and update_note and delete_note never return OK, with
\* any token; with a live token each of the three returns NOTE_NOT_FOUND.
C10_DeletionFinality ==
    \A id \in deleted :
        /\ \A n \in Notes : n.note_id # id
        /\ \A v \in TokenValues :
             LET g == get_note(Store, id, v, utc_shift, now).ret
                 d == delete_note(Store, id, v, utc_shift, now).ret
                 live == Resolves(v) \notin {INVALID_TOKEN, TOKEN_EXPIRED}
             IN  /\ ~IsNote(g)
                 /\ d # OK
                 /\ live => g = NOTE_NOT_FOUND /\ d = NOTE_NOT_FOUND
                 /\ \A text \in NoteTexts :
                      LET r == update_note(Store, id, v, text[1], text[2],
                                           utc_shift, now).ret
                      IN  r # OK /\ (live => r = NOTE_NOT_FOUND)

\* a note was deleted, its owner still holds a live token and has created
\* another note since
C10_Witness ==
    \E id \in deleted : \E n \in Notes : \E v \in TokenValues :
        /\ n.note_id > id
        /\ Resolves(v) = UserId(n.user_id)
        /\ get_note(Store, id, v, utc_shift, now).ret = NOTE_NOT_FOUND
        /\ IsNote(get_note(Store, n.note_id, v, utc_shift, now).ret)

\* the (user_id, token) pairs in which the token resolves to the user now
Live(v, user_id) == Resolves(v) = UserId(user_id)
IsNoteId(r) == DOMAIN r = {"note_id"}
IsNotes(r) == DOMAIN r = {"notes"}
Range(s) == {s[i] : i \in DOMAIN s}

\* C11: create_note with a live token, a title and a content returns a note id,
\* and get_note with the same token and that id returns the note with that id,
\* the user of the token, that title, that content and created_at = updated_at.
C11_CreateThenGet ==
    \A u \in Users : \A v \in TokenValues : \A text \in NoteTexts :
        Live(v, u.user_id) =>
            LET o == create_note(Store, v, text[1], text[2], utc_shift, now)
            IN  /\ IsNoteId(o.ret)
                /\ LET g == get_note(o.st, o.ret.note_id, v, utc_shift, now).ret
                   IN  /\ IsNote(g)
                       /\ g.note.note_id = o.ret.note_id
                       /\ g.note.user_id = u.user_id
                       /\ g.note.title = text[1]
                       /\ g.note.content = text[2]
                       /\ g.note.created_at = g.note.updated_at

\* the second note of the store was created after the clock had advanced, and
\* its owner reads it back unchanged with a live token
C11_Witness ==
    \E n \in Notes : \E v \in TokenValues :
        /\ n.note_id = 2
        /\ n.created_at > 0
        /\ n.created_at = n.updated_at
        /\ Live(v, n.user_id)
        /\ get_note(Store, n.note_id, v, utc_shift, now).ret = NoteOf(n)

\* C12: when update_note returns OK for an owned note, get_note shows the new
\* title and content and an updated_at strictly greater than the one the note
\* had before the update.
C12_UpdateRefreshes ==
    \A n \in Notes : \A v \in TokenValues : \A text \in NoteTexts :
        Live(v, n.user_id) =>
            LET o == update_note(Store, n.note_id, v, text[1], text[2],
                                 utc_shift, now)
                g == get_note(o.st, n.note_id, v, utc_shift, now).ret
            IN  o.ret = OK =>
                  /\ IsNote(g)
                  /\ g.note.title = text[1]
                  /\ g.note.content = text[2]
                  /\ g.note.updated_at > n.updated_at

\* the title contains the query as a substring, letters compared as LIKE does
Contains(title, q) ==
    \E i \in 0 .. (Len(title) - Len(q)) :
        \A k \in 1 .. Len(q) : lower(title[i + k]) = lower(q[k])

\* C13: get_all_notes with a live token returns exactly the notes of the
\* token's user whose title contains the stripped search_query, each once; all
\* of the user's notes when the stripped query is empty.
C13_SearchBySubstring ==
    \A u \in Users : \A v \in TokenValues : \A q \in Queries :
        Live(v, u.user_id) =>
            \A o \in get_all_notes(Store, v, q, utc_shift, now) :
                /\ IsNotes(o.ret)
                /\ Range(o.ret.notes) =
                     {n \in Notes : n.user_id = u.user_id
                                    /\ Contains(n.title, strip(q))}
                /\ Len(o.ret.notes) = Cardinality(Range(o.ret.notes))

\* the user's whole list after a call, as get_all_notes may return it
ListsAfter(st, v) == get_all_notes(st, v, <<" ">>, utc_shift, now)

\* C14: in every list get_all_notes returns, each note's updated_at is at
\* least that of the note after it; and the note just created, or just
\* updated, by the user is the first of the user's list.
C14_OrderedByRecency ==
    \A u \in Users : \A v \in TokenValues :
        Live(v, u.user_id) =>
            /\ \A q \in Queries :
                 \A o \in get_all_notes(Store, v, q, utc_shift, now) :
                     \A i \in 1 .. (Len(o.ret.notes) - 1) :
                         o.ret.notes[i].updated_at >= o.ret.notes[i + 1].updated_at
            /\ \A text \in NoteTexts :
                 LET c == create_note(Store, v, text[1], text[2], utc_shift, now)
                 IN  \A o \in ListsAfter(c.st, v) :
                         o.ret.notes[1].note_id = c.ret.note_id
            /\ \A n \in Notes : \A text \in NoteTexts :
                 LET w == update_note(Store, n.note_id, v, text[1], text[2],
                                      utc_shift, now)
                 IN  w.ret = OK =>
                       \A o \in ListsAfter(w.st, v) :
                           o.ret.notes[1].note_id = n.note_id

\* a call in which a store fault was raised returned UNKNOWN_ERROR and left the
\* connection outside a transaction, on the tables of the last commit
FaultContained(o) ==
    IsFaulted(o) =>
        /\ o.ret = UNKNOWN_ERROR
        /\ ~o.st.in_transaction
        /\ Tables(o.st) = o.st.committed

\* C15: for each of the eight public methods and each store call it makes, a
\* sqlite3.Error raised by that call is caught inside the method, the
\* transaction in flight is rolled back and UNKNOWN_ERROR is returned; no
\* exception reaches the caller.
C15_StoreFaultsContained ==
    /\ \A form \in SignUpForms, at \in CreateUserCalls :
         FaultContained(create_user_fault(Store, form[1], form[2], form[3],
                                          next_uuid, utc_shift, now, at))
    /\ \A username \in Usernames, password \in Passwords, at \in VerifyUserCalls :
         FaultContained(verify_user_fault(Store, username, password, next_uuid,
                                          utc_shift, now, at))
    /\ \A v \in TokenValues, at \in ResolveCalls :
         get_user_id_from_token_fault(Store, v, utc_shift, now, at) = UNKNOWN_ERROR
    /\ \A v \in TokenValues :
         /\ \A text \in NoteTexts, at \in CreateNoteCalls :
              FaultContained(create_note_fault(Store, v, text[1], text[2],
                                               utc_shift, now, at))
         /\ \A id \in NoteIds, at \in GetNoteCalls :
              FaultContained(get_note_fault(Store, id, v, utc_shift, now, at))
         /\ \A q \in Queries, at \in GetAllNotesCalls :
              \A o \in get_all_notes_fault(Store, v, q, utc_shift, now, at) :
                  FaultContained(o)
         /\ \A id \in NoteIds, text \in NoteTexts, at \in UpdateNoteCalls :
              FaultContained(update_note_fault(Store, id, v, text[1], text[2],
                                               utc_shift, now, at))
         /\ \A id \in NoteIds, at \in DeleteNoteCalls :
              FaultContained(delete_note_fault(Store, id, v, utc_shift, now, at))

\* C18: POST /sign_in answers a (user_id, token) pair with 200 and {token},
\* the invalid-password and user-not-found results with 404 and {error}, and
\* UNKNOWN_ERROR or None with 500.
C18_SignInMapping ==
    /\ \A username \in Usernames, password \in Passwords,
          at \in NoFault \cup VerifyUserCalls :
         LET result == verify_user_fault(Store, username, password, next_uuid,
                                         utc_shift, now, at).ret
         IN  /\ IsUserToken(result) =>
                  sign_in(result) = Response(200, [token |-> result.token])
             /\ result \in {STATUS_INVALID_PASSWORD, USER_NOT_FOUND} =>
                  sign_in(result) = Response(404, [error |-> result])
             /\ result = UNKNOWN_ERROR => sign_in(result).status = 500
    /\ sign_in(None).status = 500

\* the status the mapping gives a core result; success is 201 or 200
StatusOf(result, success) ==
    IF result = USER_ALREADY_EXISTS THEN 400
    ELSE IF result = TOKEN_EXPIRED \/ result = INVALID_TOKEN THEN 401
    ELSE IF result = NOTE_NOT_FOUND THEN 404
    ELSE IF result = UNKNOWN_ERROR \/ result = None THEN 500
    ELSE success

\* C19: for POST /sign_up and the five note endpoints the status of the answer
\* is a function of the core result: 400 for USER_ALREADY_EXISTS, 401 for
\* TOKEN_EXPIRED and INVALID_TOKEN, 404 for NOTE_NOT_FOUND, 500 for
\* UNKNOWN_ERROR and None, and otherwise 201 for note creation and 200
\* elsewhere.  The results are those the core gives in the state, and the two
\* it gives when the store fails.
C19_StatusByResult ==
    /\ \A form \in SignUpForms :
         LET r == create_user(Store, form[1], form[2], form[3], next_uuid,
                              utc_shift, now).ret
         IN  sign_up(r).status = StatusOf(r, 200)
    /\ \A v \in TokenValues :
         /\ \A q \in Queries :
              \A o \in get_all_notes(Store, v, q, utc_shift, now) :
                  get_notes(o.ret).status = StatusOf(o.ret, 200)
         /\ \A id \in NoteIds :
              LET r == get_note(Store, id, v, utc_shift, now).ret
              IN  get_note_by_id(r).status = StatusOf(r, 200)
         /\ \A text \in NoteTexts :
              LET r == create_note(Store, v, text[1], text[2], utc_shift, now).ret
              IN  post_note(r).status = StatusOf(r, 201)
         /\ \A id \in NoteIds, text \in NoteTexts :
              LET r == update_note(Store, id, v, text[1], text[2],
                                   utc_shift, now).ret
              IN  patch_note(r).status = StatusOf(r, 200)
         /\ \A id \in NoteIds :
              LET r == delete_note(Store, id, v, utc_shift, now).ret
              IN  delete_note_by_id(r).status = StatusOf(r, 200)
    /\ \A r \in {UNKNOWN_ERROR, None} :
         /\ sign_up(r).status = StatusOf(r, 200)
         /\ get_notes(r).status = StatusOf(r, 200)
         /\ get_note_by_id(r).status = StatusOf(r, 200)
         /\ post_note(r).status = StatusOf(r, 201)
         /\ patch_note(r).status = StatusOf(r, 200)
         /\ delete_note_by_id(r).status = StatusOf(r, 200)

\* one user's token has expired, another holds a live one and does not own the
\* note: the endpoints answer 400, 401, 404, 201 and 200 in this state
C19_Witness ==
    \E n \in Notes : \E a, b \in TokenValues : \E form \in SignUpForms :
        /\ Resolves(a) = TOKEN_EXPIRED
        /\ Resolves(b) \notin {TOKEN_EXPIRED, INVALID_TOKEN, UserId(n.user_id)}
        /\ sign_up(create_user(Store, form[1], form[2], form[3], next_uuid,
                               utc_shift, now).ret).status = 400
        /\ patch_note(update_note(Store, n.note_id, a, n.title, n.content,
                                  utc_shift, now).ret).status = 401
        /\ delete_note_by_id(delete_note(Store, n.note_id, b,
                                         utc_shift, now).ret).status = 404
        /\ post_note(create_note(Store, b, n.title, n.content,
                                 utc_shift, now).ret).status = 201
        /\ \A o \in get_all_notes(Store, b, <<" ">>, utc_shift, now) :
               get_notes(o.ret).status = 200

\* a request that did not succeed: a store fault was raised, or the core
\* returned a sentinel other than OK
Failed(o) ==
    \/ IsFaulted(o)
    \/ "sentinel" \in DOMAIN o.ret /\ o.ret # OK

\* the answer is {error: ...} with an HTTP error status
IsErrorResponse(r) ==
    IsResponse(r) /\ DOMAIN r.body = {"error"} /\ r.status >= 400

\* C20: on every endpoint a request that fails (a sentinel of the core, a
\* store fault, an exception raised while it is handled, the token
\* resolution of /translate included) is answered with {error: ...} and an
\* HTTP error status, and no exception leaves the handler.
C20_StructuredErrors ==
    /\ \A username \in Usernames, password \in Passwords,
          at \in NoFault \cup VerifyUserCalls :
         LET o == verify_user_fault(Store, username, password, next_uuid,
                                    utc_shift, now, at)
         IN  Failed(o) => IsErrorResponse(sign_in(o.ret))
    /\ \A form \in SignUpForms, at \in NoFault \cup CreateUserCalls :
         LET o == create_user_fault(Store, form[1], form[2], form[3], next_uuid,
                                    utc_shift, now, at)
         IN  Failed(o) => IsErrorResponse(sign_up(o.ret))
    /\ \A v \in TokenValues :
         /\ \A q \in Queries, at \in NoFault \cup GetAllNotesCalls :
              \A o \in get_all_notes_fault(Store, v, q, utc_shift, now, at) :
                  Failed(o) => IsErrorResponse(get_notes(o.ret))
         /\ \A id \in NoteIds, at \in NoFault \cup GetNoteCalls :
              LET o == get_note_fault(Store, id, v, utc_shift, now, at)
              IN  Failed(o) => IsErrorResponse(get_note_by_id(o.ret))
         /\ \A text \in NoteTexts, at \in NoFault \cup CreateNoteCalls :
              LET o == create_note_fault(Store, v, text[1], text[2],
                                         utc_shift, now, at)
              IN  Failed(o) => IsErrorResponse(post_note(o.ret))
         /\ \A id \in NoteIds, text \in NoteTexts, at \in NoFault \cup UpdateNoteCalls :
              LET o == update_note_fault(Store, id, v, text[1], text[2],
                                         utc_shift, now, at)
              IN  Failed(o) => IsErrorResponse(patch_note(o.ret))
         /\ \A id \in NoteIds, at \in NoFault \cup DeleteNoteCalls :
              LET o == delete_note_fault(Store, id, v, utc_shift, now, at)
              IN  Failed(o) => IsErrorResponse(delete_note_by_id(o.ret))
         /\ \A at \in NoFault \cup ResolveCalls, req \in TranslateRequests :
              LET result == get_user_id_from_token_fault(Store, v, utc_shift,
                                                         now, at)
                  r == translate(result, req[1], req[2])
              IN  /\ IsResponse(r)
                  /\ r.status # 200 => IsErrorResponse(r)
                  /\ (IsRaise(result) \/ IsAuthFailure(result)) => IsErrorResponse(r)


\* the methods that only read
Reads == {"get_user_id_from_token", "get_note", "get_all_notes"}
Returned(t) == threads[t].pc = "done"

\* C16: under any interleaving of the requests on the shared connection, a
\* mutating method that has returned success has all of its writes in the
\* committed tables (create_user: the Users row and the Tokens row;
\* create_note: the Notes row with the id it returned), and one that has
\* returned failure has none; no commit or rollback of another request
\* commits or discards part of them.
C16_AtomicMutations ==
    \A t \in Threads : Returned(t) => threads[t].atomic

\* C17: under any interleaving of the requests on the shared cursor, a read
\* returns the result of its own query: every fetch of get_user_id_from_token,
\* get_note and get_all_notes gives what the rows of its own SELECT give, so
\* a token of user A never resolves to user B or to INVALID_TOKEN while it is
\* live, and no note of another request's query is returned.
C17_ReadsOwnQuery ==
    \A t \in Threads :
        Returned(t) /\ threads[t].req.op \in Reads => ~ threads[t].foreign


\* C21: every /translate request is answered: once the handler has called the
\* translation service it terminates with a response, whether or not the
\* service ever replies.
C21_TranslateAnswers ==
    (translation.pc = "posting") ~> (translation.pc = "answered")

\* the body is a JSON object whose query is missing or empty
NoQuery(data) == data # None /\ ("query" \notin DOMAIN data \/ data.query = "")

\* C22: in /translate the translation service is called only after the token
\* has resolved to a user and the query is non-empty: an expired or invalid
\* token is answered 401 and a missing or empty query 400 with 'No text to
\* translate', both without an outbound call; a reply of the service with a
\* status other than 200 is answered 500 with 'Translation API Error
\* (<status>)'.
C22_TranslateOrder ==
    translation.pc # "idle" =>
        /\ IsAuthFailure(translation.result) =>
             /\ ~ translation.posted
             /\ translation.response = Response(401, [error |-> translation.result])
        /\ ~ IsAuthFailure(translation.result) /\ NoQuery(translation.data) =>
             /\ ~ translation.posted
             /\ translation.response =
                  Response(400, [error |-> "No text to translate"])
        /\ translation.posted =>
             /\ \E u \in Users : translation.result = UserId(u.user_id)
             /\ "query" \in DOMAIN translation.data
             /\ translation.data.query # ""
        /\ /\ translation.pc = "answered"
           /\ translation.posted
           /\ ~ IsRaise(translation.reply)
           /\ translation.reply.status_code # 200
           => translation.response =
                Response(500, [error |-> <<"Translation API Error",
                                           translation.reply.status_code>>])

\* each of the four answers has been given: 401 and 400 without a call, and
\* 500 to a refusal of the service
C22_Witness ==
    /\ translation.pc = "answered"
    /\ translation.posted
    /\ translation.response.status = 500
    /\ ~ IsRaise(translation.reply)
    /\ translation.reply.status_code = 429
    /\ \E v \in TokenValues : Resolves(v) = TOKEN_EXPIRED


\* C23: get_user_id_from_token only reads: a resolution leaves Users, Tokens
\* and Notes as they were, and a token that resolves to TOKEN_EXPIRED has its
\* row in Tokens and goes on resolving to TOKEN_EXPIRED, never to
\* INVALID_TOKEN, over every step in which no token is handed to its user.
C23_ResolutionReadOnly ==
    [][/\ Resolve => UNCHANGED <<Users, Tokens, Notes>>
       /\ \A v \in TokenValues :
            Resolves(v) = TOKEN_EXPIRED =>
                \E k \in Tokens :
                    /\ k.value = v
                    /\ (\A m \in minted' : m.user_id = k.user_id => m \in minted)
                         => k \in Tokens' /\ Resolves(v)' = TOKEN_EXPIRED]_vars

\* a token has expired and been resolved, and its user has not signed in
\* since: the row is there, beside the live token of another user
C23_Witness ==
    \E k, l \in Tokens :
        /\ Resolves(k.value) = TOKEN_EXPIRED
        /\ Resolves(l.value) = UserId(l.user_id)
        /\ \E m \in minted : m.user_id = k.user_id /\ m.value = k.value


\* C24: an update_note that returns OK changes the title, the content and
\* updated_at of the note with the given id and nothing else: that note keeps
\* its note_id, user_id and created_at, every other note keeps all of its
\* columns, updated_at included, and Users and Tokens are as they were.
C24_UpdateFrame ==
    \A v \in TokenValues : \A id \in NoteIds : \A text \in NoteTexts :
        LET o == update_note(Store, id, v, text[1], text[2], utc_shift, now)
        IN  o.ret = OK =>
              /\ o.st.Users = Users
              /\ o.st.Tokens = Tokens
              /\ \E n \in Notes : \E m \in o.st.Notes :
                   /\ n.note_id = id
                   /\ m = [n EXCEPT !.title = text[1], !.content = text[2],
                                    !.updated_at = m.updated_at]
                   /\ o.st.Notes \ {m} = Notes \ {n}

\* a user updates one of two notes of different owners, both last touched
\* at another second than now
C24_Witness ==
    \E n, other \in Notes : \E v \in TokenValues :
        /\ n.user_id # other.user_id
        /\ n.updated_at # CURRENT_TIMESTAMP(now)
        /\ other.updated_at # CURRENT_TIMESTAMP(now)
        /\ update_note(Store, n.note_id, v, <<"z">>, "C2", utc_shift, now).ret = OK


\* C26: when the store raises while the notes are listed, get_all_notes called
\* with a live token returns the empty list, no error sentinel, and GET /notes
\* answers that with status 200 and an empty list.
C26_ListingFaultIsEmptyList ==
    \A v \in TokenValues : \A q \in Queries :
        (\E u \in Users : Resolves(v) = UserId(u.user_id)) =>
            \A at \in GetAllNotesCalls :
                \A o \in get_all_notes_fault(Store, v, q, utc_shift, now, at) :
                    /\ IsFaulted(o)
                    /\ o.ret = [notes |-> <<>>]
                    /\ get_notes(o.ret) = Response(200, <<>>)

\* the store faults and a user with a live token has a note to list
C26_Witness ==
    /\ store_faults
    /\ \E n \in Notes : \E v \in TokenValues :
         /\ Resolves(v) = UserId(n.user_id)
         /\ \A o \in get_all_notes(Store, v, <<" ">>, utc_shift, now) :
                o.ret.notes # <<>>


C28_FailedSignInKeepsTokens ==
    \A username \in Usernames : \A password \in Passwords :
        LET o == verify_user(Store, username, password, next_uuid, utc_shift, now)
        IN  o.ret \in {STATUS_INVALID_PASSWORD, USER_NOT_FOUND, UNKNOWN_ERROR} =>
                /\ o.st.Tokens = Tokens
                /\ \A v \in TokenValues :
                       get_user_id_from_token(o.st, v, utc_shift, now) = Resolves(v)

\* a user holding a live token is refused with a wrong password, and in
\* another state a sign-in fails on a connection left inside a transaction
C28_Witness ==
    \E u \in Users : \E v \in TokenValues :
        /\ Resolves(v) = UserId(u.user_id)
        /\ \/ /\ ~in_transaction
              /\ verify_user(Store, u.username, "wrong_password", next_uuid,
                             utc_shift, now).ret = STATUS_INVALID_PASSWORD
           \/ /\ in_transaction
              /\ verify_user(Store, u.username, "password123", next_uuid,
                             utc_shift, now).ret = UNKNOWN_ERROR


\* C29: the id returned by a successful create_note differs from the id of
\* every note created before it, deleted ones included, and the rows that
\* existed keep their ids: an id held for a deleted note designates no note.
C29_NoteIdsNeverReused ==
    \A v \in TokenValues : \A text \in NoteTexts :
        LET o == create_note(Store, v, text[1], text[2], utc_shift, now)
        IN  IsNoteId(o.ret) =>
                /\ o.ret.note_id \notin {n.note_id : n \in Notes} \cup deleted
                /\ \A n \in o.st.Notes : n.note_id \notin deleted
                /\ o.st.Notes \ Notes =
                       {n \in o.st.Notes : n.note_id = o.ret.note_id}

\* the note created last has been deleted, an older note remains, and its
\* owner, still signed in, can create another
C29_Witness ==
    \E id \in deleted : \E m \in Notes : \E v \in TokenValues :
        /\ \A n \in Notes : n.note_id < id
        /\ Resolves(v) = UserId(m.user_id)
        /\ \A text \in NoteTexts :
               IsNoteId(create_note(Store, v, text[1], text[2], utc_shift, now).ret)


Paths ==
    {"/sign_in", "/sign_up", "GET /notes", "POST /notes", "GET /notes/id",
     "PATCH /notes/id", "DELETE /notes/id", "/translate"}

\* C25: api_request never raises: no run of the script ends in an exception
\* that left api_request, and for every reply it returns, it returns None with
\* 'Connection Error: <exception>' reported when the connection failed, None
\* with 'API Error: <error field, else status code>' reported for an HTTP
\* error status, and the parsed body ({} for an empty or non-JSON body) with
\* nothing reported for a success.
C25_ApiRequestNeverRaises ==
    /\ <<"AttributeError">> \notin ui.shown
    /\ \A path \in Paths : \A reply \in Replies(path) :
           LET r == api_request(reply)
           IN  ~IsRaise(r) =>
               /\ IsRaise(reply) =>
                      r.ret = None /\ \E m \in r.error : m[1] = "Connection Error: "
               /\ ~IsRaise(reply) /\ reply.status >= 400 =>
                      r.ret = None /\ \E m \in r.error : m[1] = "API Error: "
               /\ ~IsRaise(reply) /\ reply.status < 400 =>
                      /\ r.error = {}
                      /\ r.ret = IF DOMAIN reply.body = {"text"} THEN Object(<<>>)
                                 ELSE reply.body

\* C30: 'Saved.' is on the page only in the run that follows a Save whose
\* PATCH the backend accepted, and the flag just_saved is cleared by the run
\* that shows it.
C30_SavedOnlyAfterAcceptedPatch ==
    /\ <<"Saved.">> \in ui.shown => ui.save = "accepted"
    /\ ~ui.just_saved

====
